---- MODULE Spec2Model ----
(***************************************************************************)
(* Model of the font-finder static acquisition route                      *)
(* (src/src/app/api/detect-fonts/route.js): the POST handler, detectFonts  *)
(* and extractFontFamiliesFromCSS.                                         *)
(*                                                                         *)
(* Text is modelled as a sequence of tokens (TLA+ strings).  A token is a  *)
(* literal the code's regular expressions and includes() calls look for    *)
(* ("fonts.googleapis.com", "family=", "|", ":", "+", "&", a quote, ...)   *)
(* or an opaque run of other characters ("Open", "Sans", "400,700").       *)
(* CSS text is a sequence of items: an @import statement, an @font-face    *)
(* block or a style rule; a block body is its sequence of declarations     *)
(* (the text between semicolons), each a property name and a token         *)
(* sequence for the value.                                                 *)
(***************************************************************************)
EXTENDS Integers, Sequences, FiniteSets, TLC

(***************************************************************************)
(* Sequence helpers                                                        *)
(***************************************************************************)
Includes(s, tok) == \E i \in 1..Len(s) : s[i] = tok

IncludesAny(s, toks) == \E i \in 1..Len(s) : s[i] \in toks

\* index of the first element of s in toks at or after position from, 0 if none
RECURSIVE IndexFrom(_, _, _)
IndexFrom(s, toks, from) ==
  IF from > Len(s) THEN 0
  ELSE IF s[from] \in toks THEN from
  ELSE IndexFrom(s, toks, from + 1)

\* String.prototype.split(sep) on a token sequence: the pieces between the
\* occurrences of sep, empty pieces kept
RECURSIVE Split(_, _)
Split(s, sep) ==
  LET i == IndexFrom(s, {sep}, 1)
  IN  IF i = 0 THEN <<s>>
      ELSE <<SubSeq(s, 1, i - 1)>> \o Split(SubSeq(s, i + 1, Len(s)), sep)

\* String.prototype.replace(/x/g, y) for a one-token pattern
ReplaceAll(s, from, to) == [i \in 1..Len(s) |-> IF s[i] = from THEN to ELSE s[i]]

\* String.prototype.replace(/["']/g, '')
Quotes == {"'", "\""}

StripQuotes(s) == SelectSeq(s, LAMBDA t : t \notin Quotes)

RECURSIVE Flatten(_)
Flatten(ss) == IF ss = <<>> THEN <<>> ELSE Head(ss) \o Flatten(Tail(ss))

(***************************************************************************)
(* URLs.  An absolute URL is <<scheme, host, "/", segment tokens, ...>>;   *)
(* a token that begins with a dot (".css", ".woff2") is a dot token, "?"   *)
(* starts the query.                                                       *)
(***************************************************************************)
Schemes == {"https://", "http://"}

FontExts == {".woff2", ".woff", ".ttf", ".otf", ".eot"}

DotTokens == FontExts \cup {".css", ".min"}

\* the text of a dot token after its dot
DotName(t) ==
  CASE t = ".woff2" -> "woff2"
    [] t = ".woff"  -> "woff"
    [] t = ".ttf"   -> "ttf"
    [] t = ".otf"   -> "otf"
    [] t = ".eot"   -> "eot"
    [] t = ".css"   -> "css"
    [] t = ".min"   -> "min"
    [] OTHER        -> t

\* the value new URL() signals a failure with (the code's catch blocks)
Invalid == <<"TypeError: Invalid URL">>

\* host tokens the URL parser rejects (a space in the host)
BadHosts == {"exa mple"}

IsAbsolute(u) == Len(u) >= 2 /\ u[1] \in Schemes /\ u[2] \notin {"/", "?"} \cup BadHosts

\* remove_dot_segments of the URL standard over a list of path segments
RECURSIVE RemoveDots(_, _)
RemoveDots(segs, out) ==
  IF segs = <<>> THEN out
  ELSE LET seg  == Head(segs)
           last == Len(segs) = 1
       IN  IF seg = <<"..">>
             THEN RemoveDots(Tail(segs),
                    (IF out = <<>> THEN out ELSE SubSeq(out, 1, Len(out) - 1))
                      \o (IF last THEN << <<>> >> ELSE <<>>))
           ELSE IF seg = <<".">>
             THEN RemoveDots(Tail(segs), out \o (IF last THEN << <<>> >> ELSE <<>>))
           ELSE RemoveDots(Tail(segs), Append(out, seg))

RECURSIVE JoinPath(_)
JoinPath(segs) ==
  IF segs = <<>> THEN <<>> ELSE <<"/">> \o Head(segs) \o JoinPath(Tail(segs))

\* the path of a URL's tail (what follows scheme and host), without its query
PathOf(rest) ==
  LET q == IndexFrom(rest, {"?"}, 1)
  IN  IF q = 0 THEN rest ELSE SubSeq(rest, 1, q - 1)

QueryOf(rest) ==
  LET q == IndexFrom(rest, {"?"}, 1)
  IN  IF q = 0 THEN <<>> ELSE SubSeq(rest, q, Len(rest))

\* the segments of a path that starts with "/" ("/css/site.css" -> css, site.css)
Segments(path) == IF path = <<>> THEN <<>> ELSE Split(Tail(path), "/")

NormalPath(segs) ==
  LET out == RemoveDots(segs, <<>>)
  IN  IF out = <<>> THEN <<"/">> ELSE JoinPath(out)

\* new URL(ref, base).href; Invalid when the constructor throws
ResolveUrl(ref, base) ==
  IF ref # <<>> /\ ref[1] \in Schemes
    THEN IF ~IsAbsolute(ref) THEN Invalid
         ELSE LET rest == SubSeq(ref, 3, Len(ref))
              IN  <<ref[1], ref[2]>> \o NormalPath(Segments(PathOf(rest))) \o QueryOf(rest)
  ELSE IF ~IsAbsolute(base) THEN Invalid
  ELSE LET brest == SubSeq(base, 3, Len(base))
           bsegs == Segments(PathOf(brest))
           bdir  == IF bsegs = <<>> THEN <<>> ELSE SubSeq(bsegs, 1, Len(bsegs) - 1)
           org   == <<base[1], base[2]>>
       IN  IF ref = <<>> THEN org \o NormalPath(bsegs) \o QueryOf(brest)
           ELSE IF ref[1] = "/"
             THEN org \o NormalPath(Segments(PathOf(ref))) \o QueryOf(ref)
           ELSE IF ref[1] = "?"
             THEN org \o NormalPath(bsegs) \o ref
           ELSE org \o NormalPath(bdir \o Split(PathOf(ref), "/")) \o QueryOf(ref)

\* str.match(/\.([^.?]+)($|\?)/i)?.[1]: the text after the first dot that is
\* followed, up to the end or a "?", by no other dot; <<>> when nothing matches
RECURSIVE ExtensionFrom(_, _)
ExtensionFrom(s, i) ==
  IF i > Len(s) THEN <<>>
  ELSE IF s[i] \notin DotTokens THEN ExtensionFrom(s, i + 1)
  ELSE LET j == IndexFrom(s, DotTokens \cup {"?"}, i + 1)
       IN  IF j = 0 THEN <<DotName(s[i])>> \o SubSeq(s, i + 1, Len(s))
           ELSE IF s[j] = "?" THEN <<DotName(s[i])>> \o SubSeq(s, i + 1, j - 1)
           ELSE ExtensionFrom(s, j)

ExtensionOf(s) == ExtensionFrom(s, 1)

(***************************************************************************)
(* Font-service links (route.js 54-80, 124-130)                            *)
(***************************************************************************)
\* href.match(/family=([^&]+)/i)?.[1]: what follows the first "family=" that
\* is followed by something other than "&", up to the next "&"; <<>> if none
RECURSIVE FamilyParamFrom(_, _)
FamilyParamFrom(href, from) ==
  LET i == IndexFrom(href, {"family="}, from)
  IN  IF i = 0 \/ i = Len(href) THEN <<>>
      ELSE IF href[i + 1] = "&" THEN FamilyParamFrom(href, i + 1)
      ELSE LET j == IndexFrom(href, {"&"}, i + 1)
           IN  SubSeq(href, i + 1, IF j = 0 THEN Len(href) ELSE j - 1)

FamilyParam(href) == FamilyParamFrom(href, 1)

\* replace('+', ' ') without the g flag: only the first "+" is replaced
BaseNameFirstPlusOnly(font) ==
  LET base == Split(font, ":")[1]
      i    == IndexFrom(base, {"+"}, 1)
  IN  [k \in 1..Len(base) |-> IF k = i THEN " " ELSE base[k]]

\* font.split(':')[0].replace(/\+/g, ' ')
BaseName(font) == ReplaceAll(Split(font, ":")[1], "+", " ")

\* the families one stylesheet link adds to googleFonts
GoogleFamilies(href) ==
  IF href # <<>> /\ Includes(href, "fonts.googleapis.com") /\ FamilyParam(href) # <<>>
    THEN LET fonts == Split(FamilyParam(href), "|")
         IN  [k \in 1..Len(fonts) |->
                [name |-> BaseName(fonts[k]), url |-> href, type |-> "google-font"]]
    ELSE <<>>

IsStylesheetLink(el) == el.rel = "stylesheet"

\* the hrefs of the stylesheet links, in document order (attr('href') of each)
RECURSIVE StylesheetHrefs(_)
StylesheetHrefs(links) ==
  IF links = <<>> THEN <<>>
  ELSE (IF IsStylesheetLink(Head(links)) THEN <<Head(links).href>> ELSE <<>>)
         \o StylesheetHrefs(Tail(links))

RECURSIVE ExtractGoogleFonts(_)
ExtractGoogleFonts(hrefs) ==
  IF hrefs = <<>> THEN <<>>
  ELSE GoogleFamilies(Head(hrefs)) \o ExtractGoogleFonts(Tail(hrefs))

KitHosts == {"use.typekit.net", "use.edgefonts.net"}

IsKitHref(href) == href # <<>> /\ IncludesAny(href, KitHosts)

TypekitLinks(hrefs) == SelectSeq(hrefs, IsKitHref)

\* the text of a token before its first dot
FirstLabel(t) ==
  CASE t \in KitHosts -> "use"
    [] t = "fonts.googleapis.com" -> "fonts"
    [] t = "cdn.example.com" -> "cdn"
    [] t = "example.com" -> "example"
    [] OTHER -> t

\* typekitUrl.split('/').pop().split('.')[0]
ProjectId(url) ==
  LET segs == Split(url, "/")
      last == segs[Len(segs)]
      d    == IndexFrom(last, DotTokens, 1)
      head == IF d = 0 THEN last ELSE SubSeq(last, 1, d - 1)
  IN  IF head # <<>> /\ FirstLabel(head[1]) # head[1]
        THEN <<FirstLabel(head[1])>>
        ELSE head

(***************************************************************************)
(* CSS text: items [kind, sel, decls, semi], kind "import" | "face" |      *)
(* "rule"; a declaration is [prop, val]; semi tells whether the last       *)
(* declaration of the block is followed by ";".  An import statement is    *)
(* one item whose single declaration holds the text between "@import "     *)
(* and ";".                                                                *)
(***************************************************************************)
\* the index of the first declaration of a block body with this property
RECURSIVE FirstDecl(_, _, _)
FirstDecl(decls, prop, from) ==
  IF from > Len(decls) THEN 0
  ELSE IF decls[from].prop = prop THEN from
  ELSE FirstDecl(decls, prop, from + 1)

\* declaration.match(/font-family\s*:\s*["']?([^"';]*)["']?/i)?.[1];
\* <<>> stands for undefined and for '' (both are falsy)
FaceFamily(decls) ==
  LET i == FirstDecl(decls, "font-family", 1)
  IN  IF i = 0 THEN <<>>
      ELSE LET v == decls[i].val
               w == IF v # <<>> /\ v[1] \in Quotes THEN Tail(v) ELSE v
               q == IndexFrom(w, Quotes, 1)
           IN  IF q = 0 THEN w ELSE SubSeq(w, 1, q - 1)

\* declaration.match(/<prop>\s*:\s*([^;]*)/i)?.[1] || dflt
PropOr(decls, prop, dflt) ==
  LET i == FirstDecl(decls, prop, 1)
  IN  IF i = 0 \/ decls[i].val = <<>> THEN dflt ELSE decls[i].val

\* one @font-face block: the record pushed to fontFaceDeclarations, or nothing
FaceDeclaration(item) ==
  IF item.kind = "face" /\ FaceFamily(item.decls) # <<>>
    THEN << [fontFamily |-> FaceFamily(item.decls),
             src        |-> PropOr(item.decls, "src", <<>>),
             style      |-> PropOr(item.decls, "font-style", <<"normal">>),
             weight     |-> PropOr(item.decls, "font-weight", <<"normal">>),
             display    |-> PropOr(item.decls, "font-display", <<>>)] >>
    ELSE <<>>

\* the while loop over /@font-face\s*{([^}]*)}/g
RECURSIVE FontFaces(_)
FontFaces(css) ==
  IF css = <<>> THEN <<>>
  ELSE FaceDeclaration(Head(css)) \o FontFaces(Tail(css))

(***************************************************************************)
(* Kit stylesheets (route.js 95-122)                                       *)
(***************************************************************************)
\* a declaration value that /["']([^"']+)["']/ matches at its start
IsQuotedValue(v) ==
  /\ Len(v) >= 3
  /\ v[1] \in Quotes
  /\ IndexFrom(v, Quotes, 2) >= 3

QuotedValue(v) == SubSeq(v, 2, IndexFrom(v, Quotes, 2) - 1)

\* the greedy [^}]* before font-family: the last declaration that matches
RECURSIVE LastQuotedFamily(_, _)
LastQuotedFamily(decls, i) ==
  IF i = 0 THEN 0
  ELSE IF decls[i].prop = "font-family" /\ IsQuotedValue(decls[i].val) THEN i
  ELSE LastQuotedFamily(decls, i - 1)

WeightWords == {"100", "400", "700", "normal", "bold", "lighter", "bolder"}

StyleWords == {"normal", "italic", "oblique"}

\* fontFamilyMatch.match(/<prop>\s*:\s*(<words>)/): the first declaration of
\* the block whose value starts with one of the words; dflt when none does
RECURSIVE FirstWord(_, _, _, _, _)
FirstWord(decls, prop, words, dflt, from) ==
  LET i == FirstDecl(decls, prop, from)
  IN  IF i = 0 THEN dflt
      ELSE IF decls[i].val # <<>> /\ decls[i].val[1] \in words THEN decls[i].val[1]
      ELSE FirstWord(decls, prop, words, dflt, i + 1)

\* the while loop over fontFamilyRegex.exec(cssContent): extractedFonts is
\* the Set of names seen, fontDetails the list built
RECURSIVE KitFontDetails(_, _, _)
KitFontDetails(css, extractedFonts, fontDetails) ==
  IF css = <<>> THEN fontDetails
  ELSE LET item == Head(css)
           i    == IF item.kind = "face"
                     THEN LastQuotedFamily(item.decls, Len(item.decls)) ELSE 0
       IN  IF i = 0 THEN KitFontDetails(Tail(css), extractedFonts, fontDetails)
           ELSE LET fontFamily == QuotedValue(item.decls[i].val)
                IN  IF fontFamily \in extractedFonts
                      THEN KitFontDetails(Tail(css), extractedFonts, fontDetails)
                      ELSE KitFontDetails(Tail(css), extractedFonts \cup {fontFamily},
                             Append(fontDetails,
                               [name   |-> fontFamily,
                                weight |-> FirstWord(item.decls, "font-weight", WeightWords, "normal", 1),
                                style  |-> FirstWord(item.decls, "font-style", StyleWords, "normal", 1)]))

\* the record pushed to adobeFonts for one fetched kit stylesheet
AdobeEntry(typekitUrl, css) ==
  [type      |-> "adobe-font",
   url       |-> typekitUrl,
   projectId |-> ProjectId(typekitUrl),
   fonts     |-> KitFontDetails(css, {}, <<>>)]

(***************************************************************************)
(* Font file references in a fetched stylesheet (route.js 249-261)         *)
(***************************************************************************)
\* the text of a stylesheet the url() regular expression runs over, as one
\* list of declaration values in source order
AllValues(css) == Flatten([k \in 1..Len(css) |-> [d \in 1..Len(css[k].decls) |-> css[k].decls[d].val]])

\* /url\(['"]?([^'"\)]+\.(?:woff2?|ttf|otf|eot))['"]?\)/ at the "url(" of
\* position i of value v: the captured reference, <<>> when it does not match
UrlRefAt(v, i) ==
  LET p == IF i < Len(v) /\ v[i + 1] \in Quotes THEN i + 2 ELSE i + 1
      e == IndexFrom(v, Quotes \cup {")"}, p)
  IN  IF e = 0 \/ e - p < 2 \/ v[e - 1] \notin FontExts THEN <<>>
      ELSE IF v[e] = ")" \/ (e < Len(v) /\ v[e + 1] = ")") THEN SubSeq(v, p, e - 1)
      ELSE <<>>

RECURSIVE UrlRefsIn(_, _)
UrlRefsIn(v, from) ==
  LET i == IndexFrom(v, {"url("}, from)
  IN  IF i = 0 THEN <<>>
      ELSE (IF UrlRefAt(v, i) # <<>> THEN <<UrlRefAt(v, i)>> ELSE <<>>)
             \o UrlRefsIn(v, i + 1)

RECURSIVE UrlRefs(_)
UrlRefs(vals) ==
  IF vals = <<>> THEN <<>> ELSE UrlRefsIn(Head(vals), 1) \o UrlRefs(Tail(vals))

\* the reference reported as written, without new URL(fontUrl, cssUrl)
FontFileUnresolved(fontUrl, cssUrl) ==
  [url |-> fontUrl, type |-> "font-file", format |-> ExtensionOf(fontUrl)]

\* the object added to the fontFiles Set for one reference
FontFile(fontUrl, cssUrl) ==
  [url |-> ResolveUrl(fontUrl, cssUrl), type |-> "font-file", format |-> ExtensionOf(fontUrl)]

\* Set.prototype.add of a freshly built object: objects are compared by
\* identity, so the new object is never equal to a member and is appended
SetAdd(set, obj) == Append(set, obj)

\* the while loop over urlRegex.exec(cssContent); new URL() throwing ends it
\* and is caught by the catch of the stylesheet (threw)
RECURSIVE AddFontFiles(_, _, _)
AddFontFiles(refs, cssUrl, fontFiles) ==
  IF refs = <<>> THEN [fontFiles |-> fontFiles, threw |-> FALSE]
  ELSE IF ResolveUrl(Head(refs), cssUrl) = Invalid
    THEN [fontFiles |-> fontFiles, threw |-> TRUE]
  ELSE AddFontFiles(Tail(refs), cssUrl, SetAdd(fontFiles, FontFile(Head(refs), cssUrl)))

(***************************************************************************)
(* @import statements of inline style blocks (route.js 182-200)            *)
(***************************************************************************)
\* /@import\s+(?:url\()?['"]([^'"]+)['"]\)?;/ on one import statement: the
\* quoted URL, <<>> when the statement does not match
ImportUrl(v) ==
  LET p == IF v # <<>> /\ v[1] = "url(" THEN 2 ELSE 1
  IN  IF p > Len(v) \/ v[p] \notin Quotes THEN <<>>
      ELSE LET c == IndexFrom(v, Quotes, p + 1)
           IN  IF c = 0 \/ c = p + 1 THEN <<>>
               ELSE IF c = Len(v) \/ (c + 1 = Len(v) /\ v[c + 1] = ")")
                 THEN SubSeq(v, p + 1, c - 1)
               ELSE <<>>

\* tokens whose text contains "fonts."
FontsDotTokens == {"fonts.googleapis.com", "fonts.gstatic.com", "fonts.example.com"}

\* importUrl.includes('fonts.')
IncludesFontsDot(u) ==
  \/ IncludesAny(u, FontsDotTokens)
  \/ \E i \in 1..(Len(u) - 1) : u[i] = "fonts" /\ u[i + 1] \in DotTokens

\* importUrl.includes('/fonts/')
IncludesFontsDir(u) ==
  \E i \in 1..(Len(u) - 2) : u[i] = "/" /\ u[i + 1] = "fonts" /\ u[i + 2] = "/"

\* importUrl.match(/\.(woff2?|ttf|otf|eot)($|\?)/i)
HasFontExtension(u) ==
  \E i \in 1..Len(u) : u[i] \in FontExts /\ (i = Len(u) \/ u[i + 1] = "?")

IsFontImport(u) ==
  \/ Includes(u, "fonts.googleapis.com")
  \/ IncludesFontsDot(u)
  \/ IncludesFontsDir(u)
  \/ HasFontExtension(u)

\* the while loop over cssImportRegex.exec(styleTag)
RECURSIVE ImportFonts(_)
ImportFonts(css) ==
  IF css = <<>> THEN <<>>
  ELSE LET item == Head(css)
           u    == IF item.kind = "import" THEN ImportUrl(item.decls[1].val) ELSE <<>>
       IN  (IF u # <<>> /\ IsFontImport(u)
              THEN << [url |-> u, type |-> "css-import-font"] >> ELSE <<>>)
             \o ImportFonts(Tail(css))

(***************************************************************************)
(* extractFontFamiliesFromCSS (route.js 360-406)                           *)
(***************************************************************************)
\* the last declaration of a block with this property and a non-empty value
\* (the greedy [^{}]* before the property name), 0 if none
RECURSIVE LastDecl(_, _, _)
LastDecl(decls, prop, i) ==
  IF i = 0 THEN 0
  ELSE IF decls[i].prop = prop /\ decls[i].val # <<>> THEN i
  ELSE LastDecl(decls, prop, i - 1)

\* String.prototype.trim over " " tokens
RECURSIVE TrimLeft(_)
TrimLeft(s) == IF s # <<>> /\ Head(s) = " " THEN TrimLeft(Tail(s)) ELSE s

RECURSIVE TrimRight(_)
TrimRight(s) ==
  IF s # <<>> /\ s[Len(s)] = " " THEN TrimRight(SubSeq(s, 1, Len(s) - 1)) ELSE s

Trim(s) == TrimRight(TrimLeft(s))

\* the text of an import statement, which lies before the next block's "{"
ImportText(item) == <<"@import", " ">> \o item.decls[1].val \o <<";", " ">>

\* tokens that begin with a digit
DigitTokens == {"100", "400", "700", "16px", "1.5"}

\* walks the items; pre is the text since the last "}" (match[1] is all of
\* it up to the block's "{"); which is "font-family" or "font"
RECURSIVE FamilyUsages(_, _, _)
FamilyUsages(css, pre, which) ==
  IF css = <<>> THEN <<>>
  ELSE LET item == Head(css)
       IN  IF item.kind = "import"
             THEN FamilyUsages(Tail(css), pre \o ImportText(item), which)
           ELSE LET i        == LastDecl(item.decls, which, Len(item.decls))
                    selector == Trim(pre \o item.sel)
                    parts    == IF i = 0 THEN <<>> ELSE Split(Trim(item.decls[i].val), " ")
                    lastPart == IF parts = <<>> THEN <<>> ELSE parts[Len(parts)]
                    found    ==
                      IF i = 0 THEN <<>>
                      ELSE IF which = "font-family"
                        THEN << [selector  |-> selector,
                                 value     |-> StripQuotes(Trim(item.decls[i].val)),
                                 shorthand |-> FALSE] >>
                      ELSE IF Len(parts) >= 2 /\ lastPart # <<>> /\ lastPart[1] \notin DigitTokens
                        THEN << [selector  |-> selector,
                                 value     |-> StripQuotes(lastPart),
                                 shorthand |-> TRUE] >>
                      ELSE <<>>
                IN  found \o FamilyUsages(Tail(css), <<>>, which)

extractFontFamiliesFromCSS(css) ==
  IF css = <<>> THEN <<>>
  ELSE FamilyUsages(css, <<>>, "font-family") \o FamilyUsages(css, <<>>, "font")

(***************************************************************************)
(* System stacks and computed families (route.js 290-334).  Both regular   *)
(* expressions run over allCSS as text, so the items are written out as    *)
(* tokens: selector, "{", each declaration as property, ":", value and     *)
(* ";", "}".                                                               *)
(***************************************************************************)
DeclText(d, semi) == <<d.prop, ":">> \o d.val \o (IF semi THEN <<";">> ELSE <<>>)

\* the declarations of a block; only the last one may lack its ";"
RECURSIVE DeclsText(_, _)
DeclsText(decls, semi) ==
  IF decls = <<>> THEN <<>>
  ELSE DeclText(Head(decls), Len(decls) > 1 \/ semi) \o DeclsText(Tail(decls), semi)

BlockText(item) == item.sel \o <<"{">> \o DeclsText(item.decls, item.semi) \o <<"}">>

ItemText(item) == IF item.kind = "import" THEN ImportText(item) ELSE BlockText(item)

RECURSIVE CssText(_)
CssText(css) ==
  IF css = <<>> THEN <<>> ELSE ItemText(Head(css)) \o CssText(Tail(css))

RECURSIVE StyleElements(_)
StyleElements(styles) ==
  IF styles = <<>> THEN <<>>
  ELSE <<"<style>">> \o CssText(Head(styles)) \o <<"</style>">>
         \o StyleElements(Tail(styles))

\* response.data: the markup of the page, of which the style elements matter
Html(data) == <<"<html>">> \o StyleElements(data.styles) \o <<"</html>">>

\* Array.prototype.join(' ')
RECURSIVE JoinSpace(_)
JoinSpace(texts) ==
  IF texts = <<>> THEN <<>>
  ELSE IF Len(texts) = 1 THEN Head(texts)
  ELSE Head(texts) \o <<" ">> \o JoinSpace(Tail(texts))

RECURSIVE CssTextsOf(_)
CssTextsOf(styleTags) ==
  IF styleTags = <<>> THEN <<>>
  ELSE <<CssText(Head(styleTags))>> \o CssTextsOf(Tail(styleTags))

\* styleTags.join(' ') + response.data
AllCSS(styleTags, data) == JoinSpace(CssTextsOf(styleTags)) \o Html(data)

\* the positions of a token in a text
Positions(text, tok) == {i \in 1..Len(text) : text[i] = tok}

\* the first of these positions at or after from, 0 if none
FirstFrom(positions, from) ==
  LET later == {i \in positions : i >= from}
  IN  IF later = {} THEN 0 ELSE CHOOSE i \in later : \A j \in later : i <= j

\* the captures of /font-family\s*:\s*([^;]+)/g over a text from position
\* from on: what follows "font-family:" up to the next ";" or, without one,
\* to the end of the text; with needSemi the pattern ends with ";" and a
\* capture that reaches the end of the text is no match.  names and semis
\* are the positions of "font-family" and of ";"
RECURSIVE CapturesFrom(_, _, _, _, _)
CapturesFrom(text, names, semis, from, needSemi) ==
  LET i == FirstFrom(names, from)
  IN  IF i = 0 \/ i + 1 >= Len(text) THEN <<>>
      ELSE IF text[i + 1] # ":" \/ text[i + 2] = ";"
        THEN CapturesFrom(text, names, semis, i + 1, needSemi)
      ELSE LET j   == FirstFrom(semis, i + 2)
               cap == SubSeq(text, i + 2, IF j = 0 THEN Len(text) ELSE j - 1)
               val == IF TrimLeft(cap) = <<>> THEN cap ELSE TrimLeft(cap)
           IN  IF j = 0 THEN (IF needSemi THEN <<>> ELSE <<val>>)
               ELSE <<val>> \o CapturesFrom(text, names, semis, j, needSemi)

FamilyCaptures(text, needSemi) ==
  CapturesFrom(text, Positions(text, "font-family"), Positions(text, ";"), 1, needSemi)

\* String.prototype.includes for a literal of several tokens
IncludesText(s, lit) ==
  \E i \in 1..(Len(s) - Len(lit) + 1) : SubSeq(s, i, i + Len(lit) - 1) = lit

SystemTokens ==
  { <<"system-ui">>, <<"-apple-system">>, <<"BlinkMacSystemFont">>,
    <<"Segoe", " ", "UI">>, <<"Roboto">>, <<"Helvetica", " ", "Neue">>, <<"Arial">> }

IsSystemStack(fontFamily) == \E lit \in SystemTokens : IncludesText(fontFamily, lit)

RECURSIVE SystemFontStacks(_)
SystemFontStacks(vals) ==
  IF vals = <<>> THEN <<>>
  ELSE (IF IsSystemStack(Head(vals))
          THEN << [stack |-> Head(vals), type |-> "system-font-stack"] >> ELSE <<>>)
         \o SystemFontStacks(Tail(vals))

GenericKeywords ==
  { <<"serif">>, <<"sans-serif">>, <<"monospace">>, <<"cursive">>, <<"fantasy">>,
    <<"system-ui">>, <<"-apple-system">> }

\* fontFamily.split(',').map(f => f.trim().replace(/["']/g, '')).filter(...)
\* .forEach(f => { if (f) computedFontFamilies.add(f) }): names are strings,
\* so the Set keeps one of each, in insertion order
RECURSIVE AddFamilies(_, _)
AddFamilies(parts, names) ==
  IF parts = <<>> THEN names
  ELSE LET f == StripQuotes(Trim(Head(parts)))
       IN  IF f \in GenericKeywords \/ f = <<>> \/ (\E k \in 1..Len(names) : names[k] = f)
             THEN AddFamilies(Tail(parts), names)
             ELSE AddFamilies(Tail(parts), Append(names, f))

RECURSIVE ComputedFontFamilies(_, _)
ComputedFontFamilies(vals, names) ==
  IF vals = <<>> THEN names
  ELSE ComputedFontFamilies(Tail(vals), AddFamilies(Split(Trim(Head(vals)), ","), names))

ComputedFonts(vals) ==
  LET names == ComputedFontFamilies(vals, <<>>)
  IN  [k \in 1..Len(names) |-> [name |-> names[k], type |-> "computed-font"]]

(***************************************************************************)
(* The page: response.data of the primary fetch, as cheerio sees it:       *)
(* links (the link elements, [rel, href, as, type], href <<>> when the     *)
(* attribute is missing or empty) and styles (the html() of each style     *)
(* element), both in document order.                                       *)
(***************************************************************************)
\* $(el).attr('type')?.replace('font/', '') || href.match(...)?.[1] || 'unknown'
PreloadFormat(el) ==
  LET i == IndexFrom(el.type, {"font/"}, 1)
      t == IF i = 0 THEN el.type
           ELSE SubSeq(el.type, 1, i - 1) \o SubSeq(el.type, i + 1, Len(el.type))
  IN  IF t # <<>> THEN t
      ELSE IF ExtensionOf(el.href) # <<>> THEN ExtensionOf(el.href)
      ELSE <<"unknown">>

RECURSIVE PreloadedFonts(_)
PreloadedFonts(links) ==
  IF links = <<>> THEN <<>>
  ELSE LET el == Head(links)
       IN  (IF el.rel = "preload" /\ el.as = "font" /\ el.href # <<>>
              THEN << [url |-> el.href, type |-> "preloaded-font", format |-> PreloadFormat(el)] >>
              ELSE <<>>) \o PreloadedFonts(Tail(links))

\* the stylesheet hrefs made absolute against the page URL; one that new
\* URL() rejects is logged and skipped
RECURSIVE StylesheetUrls(_, _)
StylesheetUrls(hrefs, url) ==
  IF hrefs = <<>> THEN <<>>
  ELSE (IF Head(hrefs) # <<>> /\ ResolveUrl(Head(hrefs), url) # Invalid
          THEN <<ResolveUrl(Head(hrefs), url)>> ELSE <<>>)
         \o StylesheetUrls(Tail(hrefs), url)

\* every style block kept, the empty ones too
StyleTagsWithEmpty(styles) == styles

\* the non-empty style blocks ($(el).html() truthy)
StyleTags(styles) == SelectSeq(styles, LAMBDA content : content # <<>>)

InlineSource(content) ==
  [source |-> "inline <style> tag", url |-> <<>>, content |-> content,
   fontFamilies |-> extractFontFamiliesFromCSS(content)]

ExternalSource(cssUrl, cssContent) ==
  [source |-> "external CSS file", url |-> cssUrl, content |-> cssContent,
   fontFamilies |-> extractFontFamiliesFromCSS(cssContent)]

(***************************************************************************)
(* The handler's state.  st holds the locals of one POST / detectFonts     *)
(* call and its position pc:                                               *)
(*   "start"    the request has arrived, POST has not run                  *)
(*   "primary"  suspended in the await of axios.get(url) (line 35)         *)
(*   "kit"      suspended in the await of axios.get(typekitUrl) (line 85), *)
(*              typekitUrl = typekitLinks[kitIdx]                          *)
(*   "css"      suspended in the await of axios.get(cssUrl) (line 231),    *)
(*              cssUrl = stylesheetUrls[cssIdx]                            *)
(*   "done"     POST has returned its response                             *)
(*   "idle"     no request has arrived yet (the component has not          *)
(*              submitted)                                                 *)
(* body is the request, net the fetches issued so far with their outcome   *)
(* (state "pending" while in flight), responses the responses returned.    *)
(* other is a second request the same process handles at the same time,    *)
(* a record [body, st, net, responses] of its own, or NoRequest.           *)
(* home is the state of the page component Home (part_000 lines 7-10): the *)
(* url typed, loading, error and fontData, with the position pc of         *)
(* handleSubmit:                                                           *)
(*   "idle"   no submission is running                                     *)
(*   "fetch"  suspended in the await of fetch('/api/detect-fonts') (54)    *)
(*   "json"   suspended in the await of response.json() (62)               *)
(* response is the Response the fetch resolved with, submits the number of *)
(* submissions so far, unique what getUniqueFontFamilies returned.         *)
(***************************************************************************)
VARIABLES body, st, net, responses, other, home

vars == <<body, st, net, responses, other, home>>

NoPage == [links |-> <<>>, styles |-> <<>>]

NoRequest == <<>>

\* a state value of the component: null, undefined or a value
Null == [is |-> "null", value |-> <<>>]

Undefined == [is |-> "undefined", value |-> <<>>]

Some(x) == [is |-> "value", value |-> x]

\* the component after its first render: useState(''), useState(false),
\* useState(null), useState(null)
Mounted ==
  [pc |-> "idle", url |-> <<>>, loading |-> FALSE, error |-> Null, fontData |-> Null,
   response |-> Null, submits |-> 0, unique |-> Null]

Fresh ==
  [pc |-> "start", url |-> <<>>, data |-> NoPage,
   typekitLinks |-> <<>>, kitIdx |-> 0, stylesheetUrls |-> <<>>, cssIdx |-> 0,
   styleTags |-> <<>>,
   googleFonts |-> <<>>, adobeFonts |-> <<>>, cssImportFonts |-> <<>>,
   preloadedFonts |-> <<>>, cssSourceFiles |-> <<>>, fontFiles |-> <<>>,
   fontFaceDeclarations |-> <<>>, systemFontStacks |-> <<>>, computedFonts |-> <<>>]

\* a catalog that leaves out the categories with nothing found
CatalogWithoutEmpty(s) ==
  LET full == [googleFonts          |-> s.googleFonts,
               adobeFonts           |-> s.adobeFonts,
               fontFiles            |-> s.fontFiles,
               fontFaceDeclarations |-> s.fontFaceDeclarations,
               preloadedFonts       |-> s.preloadedFonts,
               cssImportFonts       |-> s.cssImportFonts,
               systemFontStacks     |-> s.systemFontStacks,
               computedFonts        |-> s.computedFonts,
               cssSourceFiles       |-> s.cssSourceFiles]
  IN  [k \in {x \in DOMAIN full : full[x] # <<>>} |-> full[k]]

\* the object detectFonts returns (lines 336-347); Array.from(fontFiles)
\* lists the Set in insertion order
Catalog(s) ==
  [googleFonts          |-> s.googleFonts,
   adobeFonts           |-> s.adobeFonts,
   fontFiles            |-> s.fontFiles,
   fontFaceDeclarations |-> s.fontFaceDeclarations,
   preloadedFonts       |-> s.preloadedFonts,
   cssImportFonts       |-> s.cssImportFonts,
   systemFontStacks     |-> s.systemFontStacks,
   computedFonts        |-> s.computedFonts,
   cssSourceFiles       |-> s.cssSourceFiles]

\* lines 290-347: the code after the stylesheet loop, up to the return;
\* response.data holds the style blocks again
Finish(s) ==
  LET allCSS == AllCSS(s.styleTags, s.data)
  IN  [s EXCEPT !.pc = "returned",
                !.systemFontStacks = SystemFontStacks(FamilyCaptures(allCSS, FALSE)),
                !.computedFonts = ComputedFonts(FamilyCaptures(allCSS, TRUE))]

\* the head of the for loop of line 229: suspend in the next fetch, or go on
EnterCssLoop(s) ==
  IF s.cssIdx < Len(s.stylesheetUrls)
    THEN [s EXCEPT !.pc = "css", !.cssIdx = s.cssIdx + 1]
    ELSE Finish(s)

\* lines 137-225: the code between the two fetch loops
AfterKitLoop(s) ==
  LET styleTags == StyleTags(s.data.styles)
  IN  EnterCssLoop(
        [s EXCEPT !.preloadedFonts = PreloadedFonts(s.data.links),
                  !.stylesheetUrls = StylesheetUrls(StylesheetHrefs(s.data.links), s.url),
                  !.styleTags = styleTags,
                  !.cssSourceFiles = [k \in 1..Len(styleTags) |-> InlineSource(styleTags[k])],
                  !.cssImportFonts = Flatten([k \in 1..Len(styleTags) |-> ImportFonts(styleTags[k])]),
                  !.fontFaceDeclarations = Flatten([k \in 1..Len(styleTags) |-> FontFaces(styleTags[k])])])

\* the head of the for loop of line 83
EnterKitLoop(s) ==
  IF s.kitIdx < Len(s.typekitLinks)
    THEN [s EXCEPT !.pc = "kit", !.kitIdx = s.kitIdx + 1]
    ELSE AfterKitLoop(s)

\* lines 43-80: the primary fetch has answered with data
AfterPrimary(s, data) ==
  EnterKitLoop(
    [s EXCEPT !.data = data,
              !.googleFonts = ExtractGoogleFonts(StylesheetHrefs(data.links)),
              !.typekitLinks = TypekitLinks(StylesheetHrefs(data.links))])

\* the kit loop without its status test: every answered kit has an entry
AfterKitFetchAnyStatus(s, reply) ==
  EnterKitLoop(
    IF reply.ok
      THEN [s EXCEPT !.adobeFonts = Append(@, AdobeEntry(s.typekitLinks[s.kitIdx], reply.data))]
      ELSE s)

\* the kit loop without its try/catch isolation: a failed fetch ends the loop
AfterKitFetchAbort(s, reply) ==
  IF reply.ok
    THEN EnterKitLoop(
           IF reply.status = 200
             THEN [s EXCEPT !.adobeFonts = Append(@, AdobeEntry(s.typekitLinks[s.kitIdx], reply.data))]
             ELSE s)
    ELSE AfterKitLoop(s)

\* lines 92-134: the body of the kit loop after its fetch; reply is
\* [ok, status, data], ok FALSE when axios.get threw
AfterKitFetch(s, reply) ==
  EnterKitLoop(
    IF reply.ok /\ reply.status = 200
      THEN [s EXCEPT !.adobeFonts = Append(@, AdobeEntry(s.typekitLinks[s.kitIdx], reply.data))]
      ELSE s)

\* the source record pushed whatever the outcome of the fetch: a failed
\* fetch leaves a record without content
AfterCssFetchAlwaysPush(s, reply) ==
  LET cssUrl == s.stylesheetUrls[s.cssIdx]
  IN  EnterCssLoop(
        IF reply.ok /\ reply.status = 200
          THEN LET files == AddFontFiles(UrlRefs(AllValues(reply.data)), cssUrl, s.fontFiles)
               IN  [s EXCEPT !.cssSourceFiles = Append(@, ExternalSource(cssUrl, reply.data)),
                             !.fontFiles = files.fontFiles,
                             !.fontFaceDeclarations =
                                IF files.threw THEN @ ELSE @ \o FontFaces(reply.data)]
          ELSE [s EXCEPT !.cssSourceFiles = Append(@, ExternalSource(cssUrl, <<>>))])

\* the source record pushed after the font file loop instead of before it: a
\* reference new URL() rejects then loses the record too
AfterCssFetchLatePush(s, reply) ==
  EnterCssLoop(
    IF reply.ok /\ reply.status = 200
      THEN LET cssUrl == s.stylesheetUrls[s.cssIdx]
               files  == AddFontFiles(UrlRefs(AllValues(reply.data)), cssUrl, s.fontFiles)
           IN  [s EXCEPT !.cssSourceFiles =
                            IF files.threw THEN @ ELSE Append(@, ExternalSource(cssUrl, reply.data)),
                         !.fontFiles = files.fontFiles,
                         !.fontFaceDeclarations =
                            IF files.threw THEN @ ELSE @ \o FontFaces(reply.data)]
      ELSE s)

\* lines 238-287: the body of the stylesheet loop after its fetch
AfterCssFetch(s, reply) ==
  EnterCssLoop(
    IF reply.ok /\ reply.status = 200
      THEN LET cssUrl == s.stylesheetUrls[s.cssIdx]
               files  == AddFontFiles(UrlRefs(AllValues(reply.data)), cssUrl, s.fontFiles)
           IN  [s EXCEPT !.cssSourceFiles = Append(@, ExternalSource(cssUrl, reply.data)),
                         !.fontFiles = files.fontFiles,
                         !.fontFaceDeclarations =
                            IF files.threw THEN @ ELSE @ \o FontFaces(reply.data)]
      ELSE s)

(***************************************************************************)
(* The inputs the model draws from: request bodies, pages and stylesheet   *)
(* texts.                                                                  *)
(***************************************************************************)
MaxLinks == 2

Decl(prop, val) == [prop |-> prop, val |-> val]

FaceBlock(decls) ==
  [kind |-> "face", sel |-> <<"@font-face", " ">>, decls |-> decls, semi |-> TRUE]

RuleBlock(sel, decls) == [kind |-> "rule", sel |-> sel, decls |-> decls, semi |-> TRUE]

\* a rule whose last declaration has no ";" before the "}"
OpenRule(sel, decls) == [kind |-> "rule", sel |-> sel, decls |-> decls, semi |-> FALSE]

ImportStmt(val) ==
  [kind |-> "import", sel |-> <<>>, decls |-> <<Decl("@import", val)>>, semi |-> TRUE]

FontA == <<"https://", "cdn.example.com", "/", "fonts", "/", "a", ".woff2">>

\* a kit-style sheet: two blocks of one quoted family, the same file twice
CssKit ==
  << FaceBlock(<< Decl("font-family", <<"\"", "Proxima", " ", "Nova", "\"">>),
                  Decl("src", <<"url(", "\"">> \o FontA \o <<"\"", ")", " ", "format(", "\"", "woff2", "\"", ")">>),
                  Decl("font-style", <<"italic">>),
                  Decl("font-weight", <<"400">>) >>),
     FaceBlock(<< Decl("font-family", <<"\"", "Proxima", " ", "Nova", "\"">>),
                  Decl("src", <<"url(">> \o FontA \o <<")">>),
                  Decl("font-weight", <<"700">>) >>) >>

\* an unquoted family without weight, the same family quoted, a block
\* without a family, a rule with a stack and a shorthand
CssSite ==
  << ImportStmt(<<"url(", "'", "https://", "fonts.googleapis.com", "/", "css", "?", "family=", "Lato", "'", ")">>),
     FaceBlock(<< Decl("font-family", <<"Foo">>),
                  Decl("src", <<"url(", "..", "/", "fonts", "/", "b", ".woff", ")">>) >>),
     FaceBlock(<< Decl("src", <<"url(", "'", "c", ".ttf", "'", ")">>),
                  Decl("font-weight", <<"bold">>) >>),
     FaceBlock(<< Decl("font-family", <<"'", "Foo", "'">>),
                  Decl("font-weight", <<"700">>),
                  Decl("font-display", <<"swap">>) >>),
     RuleBlock(<<"body", " ">>,
               << Decl("font-family", <<"Arial", ",", " ", "sans-serif">>),
                  Decl("font", <<"16px", " ", "Georgia">>) >>) >>

\* a font file reference new URL() rejects, before a named block
CssBroken ==
  << FaceBlock(<< Decl("font-family", <<"Bar">>),
                  Decl("src", <<"url(", "https://", "exa mple", "/", "d", ".woff", ")">>) >>),
     FaceBlock(<< Decl("font-family", <<"Baz">>),
                  Decl("src", <<"url(", "e", ".otf", ")">>) >>) >>

\* the bodies a stylesheet fetch can answer with
CssTexts == {CssKit, CssSite, CssBroken}

\* what axios.get resolves with for a stylesheet: status 200 and a text, or
\* another 2xx status (203 Non-Authoritative Information) and a text
Replies ==
  { [ok |-> TRUE, status |-> 200, data |-> css] : css \in CssTexts }
    \cup { [ok |-> TRUE, status |-> 203, data |-> CssKit] }

CssInline ==
  << ImportStmt(<<"'", "print", ".css", "'">>),
     RuleBlock(<<"h1", " ">>,
               << Decl("font", <<"bold", " ", "16px", " ", "\"", "Segoe", " ", "UI", "\"">>) >>),
     FaceBlock(<< Decl("font-family", <<"Baz">>), Decl("font-style", <<"italic">>) >>) >>

\* the style blocks of a page
StyleLists == { <<>>, << <<>>, CssSite >>, <<CssInline, CssKit>> }

Link(rel, href, as, type) == [rel |-> rel, href |-> href, as |-> as, type |-> type]

Stylesheet(href) == Link("stylesheet", href, "", <<>>)

GoogleHref ==
  <<"https://", "fonts.googleapis.com", "/", "css", "?", "family=",
    "Open", "+", "Sans", ":", "400,700", "|", "Roboto", "|", "Roboto", ":", "700",
    "&", "display=swap">>

KitHref == <<"https://", "use.typekit.net", "/", "abc1234", ".css">>

LinkEls ==
  { Stylesheet(GoogleHref), Stylesheet(KitHref),
    Stylesheet(<<"/", "css", "/", "site", ".css">>),
    Stylesheet(<<"https://", "cdn.example.com", "/", "css", "/", "site", ".css">>),
    Stylesheet(<<"https://", "exa mple", "/", "x", ".css">>),
    Link("preload", <<"/", "fonts", "/", "a", ".woff2">>, "font", <<"font/", "woff2">>) }

LinkLists == UNION { [1..n -> LinkEls] : n \in 0..MaxLinks }

Pages == { [links |-> l, styles |-> s] : l \in LinkLists, s \in StyleLists }

\* request bodies: json FALSE when request.json() throws; url is "missing"
\* (undefined), "empty" (''), "number" (a truthy non-string) or "string"
Bodies ==
  { [json |-> FALSE, url |-> "missing", text |-> <<>>],
    [json |-> TRUE,  url |-> "missing", text |-> <<>>],
    [json |-> TRUE,  url |-> "empty",   text |-> <<>>],
    [json |-> TRUE,  url |-> "number",  text |-> <<>>],
    [json |-> TRUE,  url |-> "string",  text |-> <<"example.com">>],
    [json |-> TRUE,  url |-> "string",  text |-> <<"https://", "example.com", "/", "blog", "/", "post">>] }

(***************************************************************************)
(* The network and the responses                                           *)
(***************************************************************************)
PrimaryTimeout == 15000

SecondaryTimeout == 5000

NoReply == [ok |-> FALSE, status |-> 0, data |-> <<>>]

\* an axios.get(url, {timeout}) in flight
Fetch(kind, url, timeout) ==
  [kind |-> kind, url |-> url, timeout |-> timeout, state |-> "pending", reply |-> NoReply]

\* the fetch the suspended handler s waits for
Awaited(s) ==
  IF s.pc = "kit" THEN Fetch("kit", s.typekitLinks[s.kitIdx], SecondaryTimeout)
  ELSE Fetch("css", s.stylesheetUrls[s.cssIdx], SecondaryTimeout)

\* the last fetch of the log settled with this reply
Settled(log, reply) ==
  [log EXCEPT ![Len(log)] =
     [@ EXCEPT !.state = IF reply.ok THEN "answered" ELSE "failed", !.reply = reply]]

Thrown == [ok |-> FALSE, status |-> 0, data |-> <<>>]

Answer(status, data) == [ok |-> TRUE, status |-> status, data |-> data]

\* NextResponse.json(...) of lines 11-14, 22 and 25-28
ValidationFailure == [status |-> 400, body |-> [error |-> <<"URL is required">>]]

\* the { status: 500 } argument left out: NextResponse.json answers 200
FailureWithoutStatus(message) ==
  [status |-> 200, body |-> [error |-> <<"Failed to detect fonts: ", message>>]]

Failure(message) ==
  [status |-> 500, body |-> [error |-> <<"Failed to detect fonts: ", message>>]]

\* a catalog with nothing found answered as an error
SuccessUnlessEmpty(fontData) ==
  IF \A k \in DOMAIN fontData : fontData[k] = <<>>
    THEN [status |-> 404, body |-> [error |-> <<"No fonts found">>]]
    ELSE [status |-> 200, body |-> [fonts |-> fontData]]

Success(fontData) == [status |-> 200, body |-> [fonts |-> fontData]]

\* url.startsWith('http') ? url : `https://${url}`
NormalizeUrl(url) == IF url # <<>> /\ url[1] \in Schemes THEN url ELSE <<"https://">> \o url

\* axios (in Node) can only answer a request for an absolute URL
Fetchable(url) == IsAbsolute(url)

Init ==
  /\ body \in Bodies
  /\ st = Fresh
  /\ net = <<>>
  /\ responses = <<>>
  /\ other = NoRequest
  /\ home = Mounted

\* the loops without their await: the next fetch is issued while the
\* current one is still in flight
ContinueWithoutAwait(s, log) ==
  IF s.pc = "returned"
    THEN /\ st' = [s EXCEPT !.pc = "done"]
         /\ net' = log
         /\ responses' = Append(responses, Success(Catalog(s)))
    ELSE /\ st' = s
         /\ net' = Append(net, Awaited(s))
         /\ UNCHANGED responses

\* detectFonts went on from a settled fetch to s: it either awaits the next
\* fetch, or has returned and POST answers with the catalog (line 22)
Continue(s, log) ==
  IF s.pc = "returned"
    THEN /\ st' = [s EXCEPT !.pc = "done"]
         /\ net' = log
         /\ responses' = Append(responses, Success(Catalog(s)))
    ELSE /\ st' = s
         /\ net' = Append(log, Awaited(s))
         /\ UNCHANGED responses

\* a check for undefined alone, which lets '' through
FalsyUndefinedOnly(b) == b.url = "missing"

\* !url of line 10: undefined and '' are falsy
Falsy(b) == b.url \in {"missing", "empty"}

\* whether url has a startsWith method (line 18 throws a TypeError if not)
IsString(b) == b.url \in {"empty", "string"}

\* POST up to its first await that leaves the handler (lines 5-20, 32-40)
Post ==
  /\ st.pc = "start"
  /\ UNCHANGED <<body, other, home>>
  /\ \/ /\ ~body.json
        /\ st' = [st EXCEPT !.pc = "done"]
        /\ responses' = Append(responses, Failure("Unexpected end of JSON input"))
        /\ UNCHANGED net
     \/ /\ body.json /\ Falsy(body)
        /\ st' = [st EXCEPT !.pc = "done"]
        /\ responses' = Append(responses, ValidationFailure)
        /\ UNCHANGED net
     \/ /\ body.json /\ ~Falsy(body) /\ ~IsString(body)
        /\ st' = [st EXCEPT !.pc = "done"]
        /\ responses' = Append(responses, Failure("url.startsWith is not a function"))
        /\ UNCHANGED net
     \/ /\ body.json /\ ~Falsy(body) /\ IsString(body)
        /\ st' = [st EXCEPT !.pc = "primary", !.url = NormalizeUrl(body.text)]
        /\ net' = Append(net, Fetch("primary", NormalizeUrl(body.text), PrimaryTimeout))
        /\ UNCHANGED responses

\* the error of the primary fetch swallowed: POST ends without a response
PrimaryFailsUnanswered ==
  /\ st.pc = "primary"
  /\ st' = [st EXCEPT !.pc = "done"]
  /\ net' = Settled(net, Thrown)
  /\ UNCHANGED <<body, responses, other, home>>

\* axios.get(url) of line 35 throws (network error, timeout, non-2xx status):
\* detectFonts rethrows (349-352), POST answers 500 (23-28)
PrimaryFails ==
  /\ st.pc = "primary"
  /\ st' = [st EXCEPT !.pc = "done"]
  /\ net' = Settled(net, Thrown)
  /\ responses' = Append(responses, Failure("timeout of 15000ms exceeded"))
  /\ UNCHANGED <<body, other, home>>

\* axios.get(url) of line 35 answers with a page
PrimaryAnswers ==
  /\ st.pc = "primary"
  /\ Fetchable(st.url)
  /\ \E data \in Pages :
       Continue(AfterPrimary(st, data), Settled(net, Answer(200, data)))
  /\ UNCHANGED <<body, other, home>>

\* axios.get(typekitUrl) of line 85 throws: caught and logged (132-134)
KitFetchFails ==
  /\ st.pc = "kit"
  /\ Continue(AfterKitFetch(st, Thrown), Settled(net, Thrown))
  /\ UNCHANGED <<body, other, home>>

\* axios.get(typekitUrl) of line 85 answers
KitFetchAnswers ==
  /\ st.pc = "kit"
  /\ Fetchable(st.typekitLinks[st.kitIdx])
  /\ \E reply \in Replies :
       Continue(AfterKitFetch(st, reply), Settled(net, reply))
  /\ UNCHANGED <<body, other, home>>

\* axios.get(cssUrl) of line 231 throws: caught and logged (285-287)
CssFetchFails ==
  /\ st.pc = "css"
  /\ Continue(AfterCssFetch(st, Thrown), Settled(net, Thrown))
  /\ UNCHANGED <<body, other, home>>

\* axios.get(cssUrl) of line 231 answers
CssFetchAnswers ==
  /\ st.pc = "css"
  /\ Fetchable(st.stylesheetUrls[st.cssIdx])
  /\ \E reply \in Replies :
       Continue(AfterCssFetch(st, reply), Settled(net, reply))
  /\ UNCHANGED <<body, other, home>>

Next ==
  \/ Post
  \/ PrimaryFails
  \/ PrimaryAnswers
  \/ KitFetchFails
  \/ KitFetchAnswers
  \/ CssFetchFails
  \/ CssFetchAnswers

Spec == Init /\ [][Next]_vars

(***************************************************************************)
(* Properties                                                              *)
(***************************************************************************)
Done == st.pc = "done"

\* the fetches of one kind, in the order they were issued
FetchesOf(kind) == SelectSeq(net, LAMBDA f : f.kind = kind)

CatalogKeys ==
  {"googleFonts", "adobeFonts", "fontFiles", "fontFaceDeclarations", "preloadedFonts",
   "cssImportFonts", "systemFontStacks", "computedFonts", "cssSourceFiles"}

IsSuccess(r) == r.status = 200 /\ DOMAIN r.body = {"fonts"}

IsFailure(r) == r.status \in {400, 500} /\ DOMAIN r.body = {"error"}

\* the external records of a source list
ExternalRecords(sources) == SelectSeq(sources, LAMBDA r : r.source = "external CSS file")

\* q starts with p
IsPrefix(p, q) == Len(p) <= Len(q) /\ SubSeq(q, 1, Len(p)) = p

\* C1: a request whose body has a missing or empty url is answered with
\* status 400 and the error 'URL is required', and no fetch is ever issued
\* for it
C1_MissingUrlRejected ==
  (body.json /\ body.url \in {"missing", "empty"}) =>
     /\ net = <<>>
     /\ st.pc \in {"start", "done"}
     /\ Done => responses = << [status |-> 400, body |-> [error |-> <<"URL is required">>]] >>

C1_Witness == body.json /\ body.url = "empty" /\ Done /\ Len(responses) = 1

\* C2: when the primary page fetch fails the request has ended with one
\* status-500 response that carries an error and no catalog, and the
\* primary fetch is the only fetch issued
C2_PrimaryFailureFatal ==
  (net # <<>> /\ net[1].state = "failed") =>
     /\ net[1].kind = "primary"
     /\ Len(net) = 1
     /\ Done
     /\ Len(responses) = 1
     /\ responses[1].status = 500
     /\ DOMAIN responses[1].body = {"error"}
     /\ responses[1].body.error # <<>>

C2_Witness == net # <<>> /\ net[1].kind = "primary" /\ net[1].state = "failed" /\ Done

\* the stylesheet fetches that were answered, whatever the status
AnsweredCss == SelectSeq(net, LAMBDA f : f.kind = "css" /\ f.state = "answered")

\* the stylesheet fetches answered with status 200
Answered200Css == SelectSeq(AnsweredCss, LAMBDA f : f.reply.status = 200)

\* the external records of the catalog are, in order, those of the fetches
SourcesMatch(fetches) ==
  LET ext == ExternalRecords(responses[1].body.fonts.cssSourceFiles)
  IN  /\ Len(ext) = Len(fetches)
      /\ \A k \in 1..Len(ext) :
           ext[k].url = fetches[k].url /\ ext[k].content = fetches[k].reply.data

PrimaryAnswered == net # <<>> /\ net[1].state = "answered"

C4_OneOutcome ==
  /\ ~Done => responses = <<>>
  /\ Done =>
       /\ Len(responses) = 1
       /\ IsSuccess(responses[1]) \/ IsFailure(responses[1])
       /\ PrimaryAnswered => IsSuccess(responses[1])

C4_Witness ==
  /\ Done /\ Len(responses) = 1 /\ IsSuccess(responses[1])
  /\ \A k \in CatalogKeys : responses[1].body.fonts[k] = <<>>

\* C5: every catalog returned has all nine collections as keys, each a list,
\* empty when nothing was found
C5_AllKeysPresent ==
  \A i \in 1..Len(responses) :
     responses[i].status = 200 =>
        /\ DOMAIN responses[i].body = {"fonts"}
        /\ DOMAIN responses[i].body.fonts = CatalogKeys
        /\ \A k \in CatalogKeys :
             DOMAIN responses[i].body.fonts[k] = 1..Len(responses[i].body.fonts[k])

\* a success on the path where every secondary fetch failed
C5_Witness ==
  /\ Done /\ Len(responses) = 1 /\ responses[1].status = 200
  /\ Len(net) = 3
  /\ \A i \in 2..Len(net) : net[i].state = "failed"
  /\ responses[1].body.fonts.adobeFonts = <<>>
  /\ responses[1].body.fonts.fontFiles = <<>>

Urls(fetches) == [k \in 1..Len(fetches) |-> fetches[k].url]

\* the last fetch issued is in flight and asks for this URL
Awaiting(log, kind, url) ==
  /\ log # <<>>
  /\ log[Len(log)].kind = kind /\ log[Len(log)].url = url
  /\ log[Len(log)].state = "pending"

\* a handled request has attempted every URL of both lists, in list order
C6_AllAttempted ==
  (Done /\ PrimaryAnswered) =>
     /\ Urls(FetchesOf("kit")) = st.typekitLinks
     /\ Urls(FetchesOf("css")) = st.stylesheetUrls
     /\ \A i \in 2..Len(net) : net[i].state # "pending"

\* a step from the N-th fetch of a list, whatever its outcome, issues the
\* (N+1)-th and removes nothing collected so far
C6_NextFetchIssued ==
  /\ (st.pc = "kit" /\ st.kitIdx < Len(st.typekitLinks)) =>
        /\ st'.pc = "kit" /\ st'.kitIdx = st.kitIdx + 1
        /\ Len(net') = Len(net) + 1
        /\ Awaiting(net', "kit", st.typekitLinks[st.kitIdx + 1])
  /\ (st.pc = "css" /\ st.cssIdx < Len(st.stylesheetUrls)) =>
        /\ st'.pc = "css" /\ st'.cssIdx = st.cssIdx + 1
        /\ Len(net') = Len(net) + 1
        /\ Awaiting(net', "css", st.stylesheetUrls[st.cssIdx + 1])
  /\ st.pc \in {"kit", "css"} =>
        /\ IsPrefix(st.adobeFonts, st'.adobeFonts)
        /\ IsPrefix(st.cssSourceFiles, st'.cssSourceFiles)
        /\ IsPrefix(st.fontFiles, st'.fontFiles)
        /\ IsPrefix(st.fontFaceDeclarations, st'.fontFaceDeclarations)
        /\ st'.typekitLinks = st.typekitLinks
        /\ st.pc = "css" => st'.stylesheetUrls = st.stylesheetUrls

\* C6: in both secondary fetch loops a failed fetch does not cancel the
\* next one: every step from a fetch, failed or answered, issues the fetch
\* of the next URL of the list and keeps what was collected, so a handled
\* request has attempted every URL of both lists
C6_FailureDoesNotCancel == [](C6_AllAttempted) /\ [][C6_NextFetchIssued]_vars

\* a failed kit fetch followed by the kit fetch of the next link
C6_Witness ==
  /\ Done
  /\ \E i \in 2..(Len(net) - 1) :
       /\ net[i].kind = "kit" /\ net[i].state = "failed"
       /\ net[i + 1].kind = "kit" /\ net[i + 1].state = "answered"
  /\ \E i \in 2..(Len(net) - 1) :
       /\ net[i].kind = "css" /\ net[i].state = "failed"
       /\ net[i + 1].kind = "css" /\ net[i + 1].state = "answered"
  /\ Len(responses[1].body.fonts.adobeFonts) = 1

\* the catalog of a handled, successful request
Fonts == responses[1].body.fonts

Succeeded == Done /\ Len(responses) = 1 /\ responses[1].status = 200

\* C7: fontFiles holds one entry per (URL, format) pair, however often the
\* pair is referenced in one stylesheet or across stylesheets
C7_FontFilesDeduplicated ==
  Succeeded =>
     \A i, j \in 1..Len(Fonts.fontFiles) :
        i # j => <<Fonts.fontFiles[i].url, Fonts.fontFiles[i].format>>
                   # <<Fonts.fontFiles[j].url, Fonts.fontFiles[j].format>>

\* what a font-face block states: the value of its first declaration of a
\* property, quotes removed; <<>> when it has none
Stated(block, prop) ==
  IF \E d \in 1..Len(block.decls) : block.decls[d].prop = prop
    THEN LET d == CHOOSE x \in 1..Len(block.decls) :
                    /\ block.decls[x].prop = prop
                    /\ \A y \in 1..(x - 1) : block.decls[y].prop # prop
         IN  SelectSeq(block.decls[d].val, LAMBDA t : t \notin {"'", "\""})
    ELSE <<>>

StatedOr(block, prop, dflt) == IF Stated(block, prop) = <<>> THEN dflt ELSE Stated(block, prop)

\* the font-face blocks of a text that name a family, in source order
NamedFaces(css) ==
  SelectSeq(css, LAMBDA b : b.kind = "face" /\ Stated(b, "font-family") # <<>>)

\* the CSS texts of a handled request: the non-empty inline style blocks in
\* document order, then the stylesheets answered with status 200
InlineTexts == SelectSeq(net[1].reply.data.styles, LAMBDA t : t # <<>>)

FetchedTexts == [k \in 1..Len(Answered200Css) |-> Answered200Css[k].reply.data]

RECURSIVE AllNamedFaces(_)
AllNamedFaces(texts) ==
  IF texts = <<>> THEN <<>> ELSE NamedFaces(Head(texts)) \o AllNamedFaces(Tail(texts))

\* C8: the N font-face blocks that name a family, of the inline style
\* blocks and the fetched stylesheets, give exactly N entries of
\* fontFaceDeclarations in source order, none merged, with weight 'normal',
\* style 'normal' and display '' where the block does not state them
C8_OneEntryPerNamedBlock ==
  (Succeeded /\ PrimaryAnswered) =>
     LET blocks == AllNamedFaces(InlineTexts \o FetchedTexts)
         faces  == Fonts.fontFaceDeclarations
     IN  /\ Len(faces) = Len(blocks)
         /\ \A k \in 1..Len(faces) :
              /\ faces[k].fontFamily = Stated(blocks[k], "font-family")
              /\ StripQuotes(faces[k].weight) = StatedOr(blocks[k], "font-weight", <<"normal">>)
              /\ StripQuotes(faces[k].style) = StatedOr(blocks[k], "font-style", <<"normal">>)
              /\ StripQuotes(faces[k].display) = Stated(blocks[k], "font-display")

\* the same on the runs where no fetched stylesheet holds a font file
\* reference that new URL() rejects (there it holds)
C8_ExceptRejectedReference ==
  (\A i \in 2..Len(net) : net[i].kind = "css" => net[i].reply.data # CssBroken)
     => C8_OneEntryPerNamedBlock

\* the kit fetches answered with status 200: adobeFonts has their entries
Answered200Kit ==
  SelectSeq(net, LAMBDA f : f.kind = "kit" /\ f.state = "answered" /\ f.reply.status = 200)

\* the first font-face block of a stylesheet that names this family
FirstBlockOf(css, family) == NamedFaces(css)[
  CHOOSE k \in 1..Len(NamedFaces(css)) :
    /\ Stated(NamedFaces(css)[k], "font-family") = family
    /\ \A j \in 1..(k - 1) : Stated(NamedFaces(css)[j], "font-family") # family ]

\* C9: in one kit project entry every family name appears at most once,
\* and its record has the weight and style of the first font-face block of
\* that family in the project's stylesheet
C9_FirstBlockOfFamilyKept ==
  (Succeeded /\ PrimaryAnswered) =>
     /\ Len(Fonts.adobeFonts) = Len(Answered200Kit)
     /\ \A e \in 1..Len(Fonts.adobeFonts) :
          LET fonts == Fonts.adobeFonts[e].fonts
              css   == Answered200Kit[e].reply.data
          IN  /\ \A i, j \in 1..Len(fonts) : i # j => fonts[i].name # fonts[j].name
              /\ \A i \in 1..Len(fonts) :
                   /\ \E k \in 1..Len(NamedFaces(css)) :
                        Stated(NamedFaces(css)[k], "font-family") = fonts[i].name
                   /\ <<fonts[i].weight>> =
                        StatedOr(FirstBlockOf(css, fonts[i].name), "font-weight", <<"normal">>)
                   /\ <<fonts[i].style>> =
                        StatedOr(FirstBlockOf(css, fonts[i].name), "font-style", <<"normal">>)

\* the same on the runs where the kit stylesheet quotes every family name
\* (there it holds)
C9_ExceptUnquotedFamily ==
  (\A i \in 2..Len(net) : net[i].kind = "kit" => net[i].reply.data = CssKit)
     => C9_FirstBlockOfFamilyKept

(***************************************************************************)
(* The family-list classifier over generated links: the page has one       *)
(* family-list link whose family= parameter is any token sequence of up to *)
(* MaxParam tokens, alone or followed by the link GoogleHref; the          *)
(* stylesheet fetches of these links fail.                                 *)
(***************************************************************************)
MaxParam == 4

FamilyTokens == {"Roboto", "+", ":", "|", "&"}

FamilyParams == UNION { [1..n -> FamilyTokens] : n \in 0..MaxParam }

FamilyLink(param) ==
  <<"https://", "fonts.googleapis.com", "/", "css", "?", "family=">> \o param

FamilyPages ==
  { [links |-> <<Stylesheet(FamilyLink(param))>> \o more, styles |-> <<>>] :
      param \in FamilyParams, more \in {<<>>, <<Stylesheet(GoogleHref)>>} }

InitFamilies ==
  /\ body = [json |-> TRUE, url |-> "string", text |-> <<"example.com">>]
  /\ st = Fresh
  /\ net = <<>>
  /\ responses = <<>>
  /\ other = NoRequest
  /\ home = Mounted

\* axios.get(url) of line 35 answers with a page of family-list links
PrimaryAnswersFamilies ==
  /\ st.pc = "primary"
  /\ Fetchable(st.url)
  /\ \E data \in FamilyPages :
       Continue(AfterPrimary(st, data), Settled(net, Answer(200, data)))
  /\ UNCHANGED <<body, other, home>>

NextFamilies ==
  \/ Post
  \/ PrimaryAnswersFamilies
  \/ CssFetchFails

SpecFamilies == InitFamilies /\ [][NextFamilies]_vars

\* the family= parameter of a link with one such parameter: what lies
\* between "family=" and the next "&"
ParamOf(href) ==
  LET f == CHOOSE i \in 1..Len(href) : href[i] = "family="
      e == IF \E i \in (f + 1)..Len(href) : href[i] = "&"
             THEN CHOOSE i \in (f + 1)..Len(href) :
                    href[i] = "&" /\ \A j \in (f + 1)..(i - 1) : href[j] # "&"
             ELSE Len(href) + 1
  IN  SubSeq(href, f + 1, e - 1)

\* the positions of the pipes of a parameter
Pipes(param) == {i \in 1..Len(param) : param[i] = "|"}

\* the number of pipe-separated items a parameter holds
ItemCount(param) == IF param = <<>> THEN 0 ELSE Cardinality(Pipes(param)) + 1

\* the position of the pipe that ends item j (the end of the parameter for
\* the last item), and the j-th item
ItemEnd(param, j) ==
  IF j = 0 THEN 0
  ELSE IF j > Cardinality(Pipes(param)) THEN Len(param) + 1
  ELSE CHOOSE i \in Pipes(param) : Cardinality({x \in Pipes(param) : x < i}) = j - 1

Item(param, j) == SubSeq(param, ItemEnd(param, j - 1) + 1, ItemEnd(param, j) - 1)

\* name is item without its ":" suffix and with every "+" turned to a space
IsNameOf(name, item) ==
  /\ Len(name) = (IF \E i \in 1..Len(item) : item[i] = ":"
                    THEN (CHOOSE i \in 1..Len(item) :
                            item[i] = ":" /\ \A j \in 1..(i - 1) : item[j] # ":") - 1
                    ELSE Len(item))
  /\ \A t \in 1..Len(name) : name[t] = (IF item[t] = "+" THEN " " ELSE item[t])

\* the family-list links of the fetched page, in document order
FamilyLinks ==
  SelectSeq(net[1].reply.data.links,
            LAMBDA el : el.rel = "stylesheet" /\ (\E i \in 1..Len(el.href) : el.href[i] = "family="))

RECURSIVE ItemsBefore(_, _)
ItemsBefore(links, l) ==
  IF l <= 1 THEN 0 ELSE ItemsBefore(links, l - 1) + ItemCount(ParamOf(links[l - 1].href))

\* C10: a family-list link whose family= parameter holds k pipe-separated
\* items adds exactly k entries to googleFonts, in that order, each named
\* by its item without the ":" suffix and with "+" as space, each carrying
\* the link's URL; the entries of different links are all kept
C10_OneEntryPerItem ==
  PrimaryAnswered =>
     /\ Len(st.googleFonts) = ItemsBefore(FamilyLinks, Len(FamilyLinks) + 1)
     /\ \A l \in 1..Len(FamilyLinks) :
          \A j \in 1..ItemCount(ParamOf(FamilyLinks[l].href)) :
             LET entry == st.googleFonts[ItemsBefore(FamilyLinks, l) + j]
             IN  /\ entry.url = FamilyLinks[l].href
                 /\ entry.type = "google-font"
                 /\ IsNameOf(entry.name, Item(ParamOf(FamilyLinks[l].href), j))
     /\ Done => (IsSuccess(responses[1]) /\ Fonts.googleFonts = st.googleFonts)

\* the parameter "+:|Roboto" before the link GoogleHref: a suffix removed, a
\* "+" replaced, and the name Roboto kept for both links
C10_Witness ==
  /\ Succeeded
  /\ Len(Fonts.googleFonts) = 5
  /\ Fonts.googleFonts[1].name = <<" ">>
  /\ Fonts.googleFonts[2].name = <<"Roboto">>
  /\ Fonts.googleFonts[4].name = <<"Roboto">>
  /\ Fonts.googleFonts[2].url # Fonts.googleFonts[4].url

(***************************************************************************)
(* Font-service links and the stylesheet loop                              *)
(***************************************************************************)
\* a URL of the family-list service or of one of the two kit services
IsServiceUrl(u) ==
  \E i \in 1..Len(u) : u[i] \in {"fonts.googleapis.com", "use.typekit.net", "use.edgefonts.net"}

\* C11: no fetch of the stylesheet loop asks for a font-service URL and no
\* 'external CSS file' record has one: font-service links are reported
\* through googleFonts and adobeFonts only
C11_ServiceLinksKeptApart ==
  /\ \A i \in 1..Len(net) : net[i].kind = "css" => ~IsServiceUrl(net[i].url)
  /\ \A k \in 1..Len(st.cssSourceFiles) :
       st.cssSourceFiles[k].source = "external CSS file" => ~IsServiceUrl(st.cssSourceFiles[k].url)

(***************************************************************************)
(* References that new URL() rejects                                       *)
(***************************************************************************)
\* the font file references of a stylesheet text, in source order
RefsOf(css) == UrlRefs(AllValues(css))

\* every stylesheet link of the page whose href resolves against the page
\* URL is fetched, whatever link before it was rejected
C12_HrefSkippedAlone ==
  (Succeeded /\ PrimaryAnswered) =>
     \A l \in 1..Len(net[1].reply.data.links) :
        LET el == net[1].reply.data.links[l]
        IN  (el.rel = "stylesheet" /\ el.href # <<>> /\ ResolveUrl(el.href, st.url) # Invalid)
              => \E i \in 2..Len(net) :
                    net[i].kind = "css" /\ net[i].url = ResolveUrl(el.href, st.url)

\* every font file reference of a fetched stylesheet that resolves against
\* the stylesheet's URL is in fontFiles, and every named font-face block of
\* the stylesheet is in fontFaceDeclarations, whatever reference of the
\* stylesheet was rejected
C12_FontFileSkippedAlone ==
  (Succeeded /\ PrimaryAnswered) =>
     \A i \in 1..Len(Answered200Css) :
        LET f == Answered200Css[i]
        IN  /\ \A r \in 1..Len(RefsOf(f.reply.data)) :
                 ResolveUrl(RefsOf(f.reply.data)[r], f.url) # Invalid
                   => \E k \in 1..Len(Fonts.fontFiles) :
                         Fonts.fontFiles[k].url = ResolveUrl(RefsOf(f.reply.data)[r], f.url)
            /\ \A b \in 1..Len(NamedFaces(f.reply.data)) :
                 \E k \in 1..Len(Fonts.fontFaceDeclarations) :
                    Fonts.fontFaceDeclarations[k].fontFamily
                      = Stated(NamedFaces(f.reply.data)[b], "font-family")

\* C12: a reference that does not resolve is skipped alone: the remaining
\* stylesheet links are still collected, and the remaining font file
\* references and the font-face blocks of the same stylesheet are still
\* extracted
C12_OnlyBadReferenceSkipped == C12_HrefSkippedAlone /\ C12_FontFileSkippedAlone

(***************************************************************************)
(* External stylesheets over generated texts: the page has one stylesheet  *)
(* link, relative or absolute, and its fetch fails or answers a text of up *)
(* to MaxBlocks font-face blocks.                                          *)
(***************************************************************************)
MaxBlocks == 2

SheetHrefs ==
  { <<"css", "/", "site", ".css">>,
    <<"/", "css", "/", "site", ".css">>,
    <<"..", "/", "site", ".css", "?", "v=3">>,
    <<"https://", "cdn.example.com", "/", "css", "/", "site", ".css">> }

\* font-face blocks: relative, quoted, root-relative and absolute
\* references, one that new URL() rejects, blocks without a family name or
\* with an empty one
SheetBlocks ==
  { FaceBlock(<< Decl("font-family", <<"'", "Foo", "'">>),
                 Decl("src", <<"url(", "..", "/", "fonts", "/", "a", ".woff2", ")", " ", "format(", "'", "woff2", "'", ")">>) >>),
    FaceBlock(<< Decl("src", <<"url(", "\"", "fonts", "/", "b", ".woff", "?", "v=2", "\"", ")", ",", " ",
                               "url(", "/", "c", ".ttf", ")">>),
                 Decl("font-family", <<"Bar">>),
                 Decl("font-weight", <<"700">>) >>),
    FaceBlock(<< Decl("src", <<"url(", "https://", "fonts.gstatic.com", "/", "s", "/", "d", ".otf", ")">>),
                 Decl("font-weight", <<"bold">>),
                 Decl("font-display", <<"swap">>) >>),
    FaceBlock(<< Decl("font-style", <<"italic">>),
                 Decl("src", <<"url(", "https://", "exa mple", "/", "e", ".eot", ")">>) >>),
    FaceBlock(<< Decl("font-family", <<>>),
                 Decl("font-style", <<"italic">>) >>),
    FaceBlock(<< Decl("font-family", <<"\"", "\"">>),
                 Decl("font-weight", <<"400">>) >>),
    FaceBlock(<< Decl("font-family", <<"Baz">>) >>) }

SheetTexts == UNION { [1..n -> SheetBlocks] : n \in 1..MaxBlocks }

SheetPages == { [links |-> <<Stylesheet(href)>>, styles |-> <<>>] : href \in SheetHrefs }

InitSheets ==
  /\ body \in {b \in Bodies : b.url = "string"}
  /\ st = Fresh
  /\ net = <<>>
  /\ responses = <<>>
  /\ other = NoRequest
  /\ home = Mounted

\* axios.get(url) of line 35 answers with a page of one stylesheet link
PrimaryAnswersSheets ==
  /\ st.pc = "primary"
  /\ Fetchable(st.url)
  /\ \E data \in SheetPages :
       Continue(AfterPrimary(st, data), Settled(net, Answer(200, data)))
  /\ UNCHANGED <<body, other, home>>

\* axios.get(cssUrl) of line 231 answers with a generated text
CssFetchAnswersSheets ==
  /\ st.pc = "css"
  /\ Fetchable(st.stylesheetUrls[st.cssIdx])
  /\ \E css \in SheetTexts :
       Continue(AfterCssFetch(st, Answer(200, css)), Settled(net, Answer(200, css)))
  /\ UNCHANGED <<body, other, home>>

NextSheets ==
  \/ Post
  \/ PrimaryAnswersSheets
  \/ CssFetchFails
  \/ CssFetchAnswersSheets

SpecSheets == InitSheets /\ [][NextSheets]_vars

(***************************************************************************)
(* The base a reference is resolved against                                *)
(***************************************************************************)
\* the stylesheet hrefs of the fetched page that resolve against base
RECURSIVE ResolvedHrefs(_, _)
ResolvedHrefs(links, base) ==
  IF links = <<>> THEN <<>>
  ELSE (IF Head(links).rel = "stylesheet" /\ Head(links).href # <<>>
             /\ ResolveUrl(Head(links).href, base) # Invalid
          THEN <<ResolveUrl(Head(links).href, base)>> ELSE <<>>)
         \o ResolvedHrefs(Tail(links), base)

\* C13: ../fonts/a.woff2 referenced from https://cdn.example.com/css/site.css
\* is https://cdn.example.com/fonts/a.woff2; every url of fontFiles is
\* absolute and is a font file reference of a fetched stylesheet resolved
\* against that stylesheet's URL, and every relative reference of a
\* stylesheet is reported under the stylesheet's host; the stylesheet loop
\* fetches the hrefs resolved against the page URL
C13_ResolvedAgainstOwnBase ==
  /\ ResolveUrl(<<"..", "/", "fonts", "/", "a", ".woff2">>,
                <<"https://", "cdn.example.com", "/", "css", "/", "site", ".css">>)
       = <<"https://", "cdn.example.com", "/", "fonts", "/", "a", ".woff2">>
  /\ LET sheets == Answered200Css
         \* the references of each fetched stylesheet, resolved against its URL
         urls   == [i \in 1..Len(sheets) |->
                      LET refs == RefsOf(sheets[i].reply.data)
                      IN  [r \in 1..Len(refs) |->
                             [ref |-> refs[r], url |-> ResolveUrl(refs[r], sheets[i].url)]]]
     IN  /\ \A k \in 1..Len(st.fontFiles) :
              /\ IsAbsolute(st.fontFiles[k].url)
              /\ \E i \in 1..Len(sheets) : \E r \in 1..Len(urls[i]) :
                   st.fontFiles[k].url = urls[i][r].url
         /\ \A i \in 1..Len(sheets) :
              (\A r \in 1..Len(urls[i]) : urls[i][r].url # Invalid)
                 => \A r \in 1..Len(urls[i]) :
                       urls[i][r].ref[1] \notin Schemes
                         => \E k \in 1..Len(st.fontFiles) :
                               /\ st.fontFiles[k].url = urls[i][r].url
                               /\ SubSeq(st.fontFiles[k].url, 1, 2) = SubSeq(sheets[i].url, 1, 2)
  /\ PrimaryAnswered =>
       /\ IsPrefix(Urls(FetchesOf("css")), ResolvedHrefs(net[1].reply.data.links, net[1].url))
       /\ Done => Urls(FetchesOf("css")) = ResolvedHrefs(net[1].reply.data.links, net[1].url)
       /\ Done => Fonts.fontFiles = st.fontFiles

\* ../fonts/a.woff2 of the stylesheet https://cdn.example.com/css/site.css,
\* linked from the page https://example.com/blog/post
C13_Witness ==
  /\ Succeeded
  /\ net[1].url = <<"https://", "example.com", "/", "blog", "/", "post">>
  /\ net[2].url = <<"https://", "cdn.example.com", "/", "css", "/", "site", ".css">>
  /\ Len(Fonts.fontFiles) = 2
  /\ Fonts.fontFiles[1].url = <<"https://", "cdn.example.com", "/", "fonts", "/", "a", ".woff2">>
  /\ Fonts.fontFiles[2].url = <<"https://", "cdn.example.com", "/", "c", ".ttf">>

\* the href css/site.css of the page https://example.com/blog/post is
\* fetched from https://example.com/blog/css/site.css (it holds)
C13_HrefAgainstPage ==
  (PrimaryAnswered /\ Len(net) >= 2
     /\ net[1].url = <<"https://", "example.com", "/", "blog", "/", "post">>
     /\ net[1].reply.data.links[1].href = <<"css", "/", "site", ".css">>)
    => net[2].url = <<"https://", "example.com", "/", "blog", "/", "css", "/", "site", ".css">>

(***************************************************************************)
(* Inline style blocks over generated texts: the page has one style block  *)
(* of up to MaxItems items (rules with font stacks and font shorthands,    *)
(* @import statements, font-face blocks) and no link.                      *)
(***************************************************************************)
MaxItems == 2

StackRules ==
  { RuleBlock(<<"body", " ">>, << Decl("font-family", <<"Arial", ",", " ", "sans-serif">>) >>),
    RuleBlock(<<"p", " ">>,
              << Decl("font-family", <<"Georgia", ",", " ", "\"", "Times", " ", "New", " ", "Roman", "\"",
                                       ",", " ", "serif">>) >>),
    RuleBlock(<<"code", " ">>, << Decl("font-family", <<"monospace">>) >>),
    OpenRule(<<"h1", " ">>,
             << Decl("color", <<"red">>),
                Decl("font-family", <<"-apple-system", ",", " ", "BlinkMacSystemFont", ",", " ",
                                      "'", "Segoe", " ", "UI", "'">>) >>),
    OpenRule(<<"div", " ">>, << Decl("font-family", <<"Georgia", ",", " ", "serif">>) >>) }

ShorthandRules ==
  { RuleBlock(<<"h2", " ">>, << Decl("font", <<"italic", " ", "bold", " ", "16px", " ", "Georgia">>) >>),
    RuleBlock(<<"h3", " ">>, << Decl("font", <<"inherit">>) >>),
    RuleBlock(<<"small", " ">>, << Decl("font", <<"bold", " ", "16px">>) >>),
    RuleBlock(<<"em", " ">>,
              << Decl("font", <<"16px", " ", "\"", "Segoe", " ", "UI", "\"">>),
                 Decl("font-family", <<"Arial">>) >>) }

ImportStmts ==
  { ImportStmt(<<"url(", "\"", "https://", "fonts.googleapis.com", "/", "css", "?", "family=", "Lato", "\"", ")">>),
    ImportStmt(<<"url(", "\"", "https://", "use.typekit.net", "/", "abc1234", ".css", "\"", ")">>),
    ImportStmt(<<"\"", "/", "assets", "/", "fonts", "/", "site", ".css", "\"">>),
    ImportStmt(<<"'", "theme", ".css", "'">>),
    ImportStmt(<<"url(", "/", "a", "/", "b", ".woff2", ")">>),
    ImportStmt(<<"\"", "https://", "example.com", "/", "fonts", "\"">>),
    ImportStmt(<<"\"", "icons", ".woff", "?", "v=1", "\"">>),
    ImportStmt(<<"'", "https://", "fonts.example.com", "/", "site", ".css", "'">>) }

FaceBlocks ==
  { FaceBlock(<< Decl("font-family", <<"Baz">>), Decl("font-style", <<"italic">>) >>),
    FaceBlock(<< Decl("src", <<"url(", "'", "c", ".ttf", "'", ")">>), Decl("font-weight", <<"bold">>) >>) }

StyleItems == StackRules \cup ShorthandRules \cup ImportStmts \cup FaceBlocks

StyleTexts == UNION { [1..n -> StyleItems] : n \in 1..MaxItems }

StylePages == { [links |-> <<>>, styles |-> <<css>>] : css \in StyleTexts }

InitStyles ==
  /\ body = [json |-> TRUE, url |-> "string", text |-> <<"example.com">>]
  /\ st = Fresh
  /\ net = <<>>
  /\ responses = <<>>
  /\ other = NoRequest
  /\ home = Mounted

\* axios.get(url) of line 35 answers with a page of one style block
PrimaryAnswersStyles ==
  /\ st.pc = "primary"
  /\ Fetchable(st.url)
  /\ \E data \in StylePages :
       Continue(AfterPrimary(st, data), Settled(net, Answer(200, data)))
  /\ UNCHANGED <<body, other, home>>

NextStyles ==
  \/ Post
  \/ PrimaryAnswersStyles

SpecStyles == InitStyles /\ [][NextStyles]_vars

\* the font stacks of a CSS text: the values of its font-family declarations
StacksOf(css) ==
  UNION { { css[k].decls[d].val :
              d \in {x \in 1..Len(css[k].decls) :
                       css[k].decls[x].prop = "font-family" /\ css[k].decls[x].val # <<>>} } :
          k \in {x \in 1..Len(css) : css[x].kind # "import"} }

\* the font stacks of the style blocks of the fetched page
PageStacks == UNION { StacksOf(InlineTexts[i]) : i \in 1..Len(InlineTexts) }

\* the tokens of a stack between its commas, trimmed and unquoted, without
\* the generic keywords and the empty ones
Survivors(stack) ==
  SelectSeq([k \in 1..Len(Split(stack, ",")) |-> StripQuotes(Trim(Split(stack, ",")[k]))],
            LAMBDA f : f # <<>> /\ f \notin GenericKeywords)

\* Array.prototype.join(', ')
RECURSIVE JoinComma(_)
JoinComma(names) ==
  IF names = <<>> THEN <<>>
  ELSE IF Len(names) = 1 THEN Head(names)
  ELSE Head(names) \o <<",", " ">> \o JoinComma(Tail(names))

\* C14: the names of computedFonts are the display names of the font stacks
\* of the page, each the surviving tokens of one stack joined with ", ";
\* a stack with no surviving token has no entry, and no entry is empty or
\* repeated
C14_OneNamePerStack ==
  (Succeeded /\ PrimaryAnswered) =>
     /\ { Fonts.computedFonts[k].name : k \in 1..Len(Fonts.computedFonts) }
          = { JoinComma(Survivors(stack)) : stack \in PageStacks } \ {<<>>}
     /\ \A i, j \in 1..Len(Fonts.computedFonts) :
          i # j => Fonts.computedFonts[i].name # Fonts.computedFonts[j].name

\* without the re-joining: the names of computedFonts are the surviving
\* tokens of the stacks of the page, on the runs where every declaration
\* ends with ";" (there it holds)
C14_OneNamePerToken ==
  (Succeeded /\ PrimaryAnswered
     /\ \A i \in 1..Len(InlineTexts) : \A k \in 1..Len(InlineTexts[i]) : InlineTexts[i][k].semi) =>
     /\ { Fonts.computedFonts[k].name : k \in 1..Len(Fonts.computedFonts) }
          = UNION { { Survivors(stack)[t] : t \in 1..Len(Survivors(stack)) } : stack \in PageStacks }
     /\ \A i, j \in 1..Len(Fonts.computedFonts) :
          i # j => Fonts.computedFonts[i].name # Fonts.computedFonts[j].name

\* C15: the stacks of systemFontStacks are, verbatim, the font stacks of the
\* page that contain one of system-ui, -apple-system, BlinkMacSystemFont,
\* Segoe UI, Roboto, Helvetica Neue, Arial, whatever computedFonts keeps of
\* them
C15_SystemStacksVerbatim ==
  (Succeeded /\ PrimaryAnswered) =>
     /\ { Fonts.systemFontStacks[k].stack : k \in 1..Len(Fonts.systemFontStacks) }
          = { stack \in PageStacks : \E lit \in SystemTokens : IncludesText(stack, lit) }
     /\ \A k \in 1..Len(Fonts.systemFontStacks) : Fonts.systemFontStacks[k].type = "system-font-stack"

\* the same on the runs where every declaration ends with ";" (there it
\* holds)
C15_ExceptUnterminated ==
  (PrimaryAnswered /\ \A i \in 1..Len(InlineTexts) : \A k \in 1..Len(InlineTexts[i]) : InlineTexts[i][k].semi)
     => C15_SystemStacksVerbatim

(***************************************************************************)
(* Two requests in one process: the handler of the second runs the same    *)
(* code on its own call frame, a step of either runs between two awaits.   *)
(* Both pages are drawn from PairPages.                                    *)
(***************************************************************************)
PairPages ==
  { [links |-> <<Stylesheet(KitHref)>>, styles |-> <<CssInline>>],
    [links |-> <<Stylesheet(<<"https://", "cdn.example.com", "/", "css", "/", "site", ".css">>)>>,
     styles |-> <<CssSite>>] }

\* the working collections as module-level variables, one fontFiles Set for
\* every call
LocalsShared(s, peer) == [s EXCEPT !.fontFiles = peer.fontFiles]

\* the locals a resumed call works on: googleFonts, adobeFonts, ...,
\* fontFiles are consts declared in the body of detectFonts (lines 43-52,
\* 151, 166, 203, 228), so a call sees its own, whatever the call of the
\* peer request holds
Locals(s, peer) == s

\* POST of request q up to the await of line 35
Started(q) ==
  [q EXCEPT !.st = [@ EXCEPT !.pc = "primary", !.url = NormalizeUrl(q.body.text)],
            !.net = Append(@, Fetch("primary", NormalizeUrl(q.body.text), PrimaryTimeout))]

\* detectFonts of request q went on from a settled fetch to s
Continued(q, s, log) ==
  IF s.pc = "returned"
    THEN [q EXCEPT !.st = [s EXCEPT !.pc = "done"],
                   !.net = log,
                   !.responses = Append(@, Success(Catalog(s)))]
    ELSE [q EXCEPT !.st = s, !.net = Append(log, Awaited(s))]

\* the call of request q resumes from its fetch settled with reply
Resumed(q, reply, peer) ==
  LET s   == Locals(q.st, peer)
      log == Settled(q.net, reply)
  IN  IF s.pc = "primary"
        THEN IF reply.ok
               THEN Continued(q, AfterPrimary(s, reply.data), log)
               ELSE [q EXCEPT !.st = [s EXCEPT !.pc = "done"],
                              !.net = log,
                              !.responses = Append(@, Failure("timeout of 15000ms exceeded"))]
      ELSE IF s.pc = "kit" THEN Continued(q, AfterKitFetch(s, reply), log)
      ELSE Continued(q, AfterCssFetch(s, reply), log)

InitPair ==
  /\ body = [json |-> TRUE, url |-> "string", text |-> <<"example.com">>]
  /\ st = Fresh
  /\ net = <<>>
  /\ responses = <<>>
  /\ other = [body |-> [json |-> TRUE, url |-> "string",
                        text |-> <<"https://", "example.com", "/", "blog", "/", "post">>],
              st |-> Fresh, net |-> <<>>, responses |-> <<>>]
  /\ home = Mounted

\* axios.get(url) of line 35 answers the first request
PrimaryAnswersPair ==
  /\ st.pc = "primary"
  /\ Fetchable(st.url)
  /\ \E data \in PairPages :
       Continue(AfterPrimary(st, data), Settled(net, Answer(200, data)))
  /\ UNCHANGED <<body, other, home>>

\* POST of the second request up to its first await
OtherPost ==
  /\ other.st.pc = "start"
  /\ other' = Started(other)
  /\ UNCHANGED <<body, st, net, responses, home>>

\* the fetch the second request awaits throws
OtherFetchFails ==
  /\ other.st.pc \in {"primary", "kit", "css"}
  /\ other' = Resumed(other, Thrown, st)
  /\ UNCHANGED <<body, st, net, responses, home>>

\* the fetch the second request awaits answers
OtherFetchAnswers ==
  /\ other.st.pc \in {"primary", "kit", "css"}
  /\ Fetchable(other.net[Len(other.net)].url)
  /\ \E reply \in (IF other.st.pc = "primary"
                      THEN {Answer(200, data) : data \in PairPages} ELSE Replies) :
       other' = Resumed(other, reply, st)
  /\ UNCHANGED <<body, st, net, responses, home>>

NextPair ==
  \/ Post
  \/ PrimaryFails
  \/ PrimaryAnswersPair
  \/ KitFetchFails
  \/ KitFetchAnswers
  \/ CssFetchFails
  \/ CssFetchAnswers
  \/ OtherPost
  \/ OtherFetchFails
  \/ OtherFetchAnswers

SpecPair == InitPair /\ [][NextPair]_vars

\* the call of a request run alone against the outcomes of a fetch log: the
\* locals after the first i fetches of the log have settled
RECURSIVE Alone(_, _)
Alone(log, i) ==
  IF i = 1
    THEN AfterPrimary([Fresh EXCEPT !.pc = "primary", !.url = log[1].url], log[1].reply.data)
    ELSE LET s == Alone(log, i - 1)
         IN  IF s.pc = "kit" THEN AfterKitFetch(s, log[i].reply)
             ELSE AfterCssFetch(s, log[i].reply)

\* the two requests as records
First == [body |-> body, st |-> st, net |-> net, responses |-> responses]

\* a handled request whose page was fetched answers the catalog of the run
\* alone, and its records name its own page and fetches only
IsolatedFrom(q, peer) ==
  (q.st.pc = "done" /\ q.net[1].state = "answered") =>
     /\ q.responses = << Success(Catalog(Alone(q.net, Len(q.net)))) >>
     /\ LET fonts == q.responses[1].body.fonts
            page  == q.net[1].reply.data
        IN  /\ \A k \in 1..Len(fonts.cssSourceFiles) :
                 LET r == fonts.cssSourceFiles[k]
                 IN  IF r.source = "external CSS file"
                       THEN \E i \in 2..Len(q.net) :
                               q.net[i].url = r.url /\ q.net[i].reply.data = r.content
                       ELSE \E i \in 1..Len(page.styles) : page.styles[i] = r.content
            /\ \A k \in 1..Len(fonts.adobeFonts) :
                 \E l \in 1..Len(page.links) : page.links[l].href = fonts.adobeFonts[k].url
            /\ \A k \in 1..Len(fonts.fontFiles) :
                 \E i \in 2..Len(q.net) :
                    /\ q.net[i].kind = "css" /\ q.net[i].reply.status = 200
                    /\ \E r \in 1..Len(RefsOf(q.net[i].reply.data)) :
                         fonts.fontFiles[k].url = ResolveUrl(RefsOf(q.net[i].reply.data)[r], q.net[i].url)

\* C16: of two requests handled at the same time, with their fetches
\* settling in any order, each answers the catalog it would answer alone
\* for the same page and fetch outcomes, with nothing of the other's page
C16_RequestsIsolated == IsolatedFrom(First, other) /\ IsolatedFrom(other, First)

\* both requests are handled for different pages, each with font files of
\* its own stylesheet
C16_Witness ==
  /\ Done /\ other.st.pc = "done"
  /\ Len(responses) = 1 /\ Len(other.responses) = 1
  /\ responses[1].status = 200 /\ other.responses[1].status = 200
  /\ net[1].reply.data # other.net[1].reply.data
  /\ responses[1].body.fonts.fontFiles # <<>>
  /\ other.responses[1].body.fonts.fontFiles # <<>>
  /\ responses[1].body.fonts.fontFiles # other.responses[1].body.fonts.fontFiles

(***************************************************************************)
(* The order of the fetches of one request                                 *)
(***************************************************************************)
\* C17: at most one fetch of a request is outstanding, and it is the last
\* one issued: every fetch before it has completed or failed; the kit
\* fetches and the stylesheet fetches are issued in the order of their
\* lists, and every kit fetch has settled before the first stylesheet fetch
\* is issued
C17_OneFetchAtATime ==
  /\ \A i \in 1..(Len(net) - 1) : net[i].state \in {"answered", "failed"}
  /\ \A i, j \in 1..Len(net) : (net[i].kind = "kit" /\ net[j].kind = "css") => i < j
  /\ \A i \in 2..Len(net) : net[1].kind = "primary" /\ net[i].kind \in {"kit", "css"}
  /\ IsPrefix(Urls(FetchesOf("kit")), st.typekitLinks)
  /\ IsPrefix(Urls(FetchesOf("css")), st.stylesheetUrls)
  /\ st.pc \in {"primary", "kit", "css"} <=> (net # <<>> /\ net[Len(net)].state = "pending")

\* two kit fetches, the first failed, then two stylesheet fetches
C17_Witness ==
  /\ Done
  /\ Len(net) = 5
  /\ net[2].kind = "kit" /\ net[2].state = "failed"
  /\ net[3].kind = "kit" /\ net[3].state = "answered"
  /\ net[4].kind = "css" /\ net[5].kind = "css"
  /\ Len(st.typekitLinks) = 2

(***************************************************************************)
(* Font-face blocks without a family name                                  *)
(***************************************************************************)
\* a font-face block with no font-family declaration or an empty one
IsNameless(b) == b.kind = "face" /\ Stated(b, "font-family") = <<>>

\* C18: every entry of fontFaceDeclarations has a non-empty fontFamily and
\* there are no more entries than named blocks, so a block without a family
\* name has none; every named block that follows a block without a family
\* name, in a style block or a fetched stylesheet, has its entry
C18_NamelessBlockSkippedAlone ==
  (Succeeded /\ PrimaryAnswered) =>
     LET texts == InlineTexts \o FetchedTexts
         faces == Fonts.fontFaceDeclarations
     IN  /\ \A k \in 1..Len(faces) : faces[k].fontFamily # <<>>
         /\ Len(faces) <= Len(AllNamedFaces(texts))
         /\ \A t \in 1..Len(texts) : \A a, b \in 1..Len(texts[t]) :
              (a < b /\ IsNameless(texts[t][a]) /\ texts[t][b].kind = "face"
                 /\ ~IsNameless(texts[t][b]))
                => \E k \in 1..Len(faces) :
                      faces[k].fontFamily = Stated(texts[t][b], "font-family")

\* the same on the runs where no fetched stylesheet holds a font file
\* reference that new URL() rejects (there it holds)
C18_ExceptRejectedReference ==
  (PrimaryAnswered
     /\ \A i \in 1..Len(Answered200Css) :
          \A r \in 1..Len(RefsOf(Answered200Css[i].reply.data)) :
             ResolveUrl(RefsOf(Answered200Css[i].reply.data)[r], Answered200Css[i].url) # Invalid)
    => C18_NamelessBlockSkippedAlone

(***************************************************************************)
(* @import targets                                                         *)
(***************************************************************************)
\* the URL an @import statement names: its text without url( ), and quotes
TargetOf(item) == SelectSeq(item.decls[1].val, LAMBDA t : t \notin {"url(", ")", "'", "\""})

\* the host and path of a URL: what stands before its query string
HostAndPath(u) ==
  IF \E i \in 1..Len(u) : u[i] = "?"
    THEN SubSeq(u, 1, (CHOOSE i \in 1..Len(u) : u[i] = "?" /\ \A j \in 1..(i - 1) : u[j] # "?") - 1)
    ELSE u

\* tokens whose text contains "fonts"
FontsTokens == {"fonts", "fonts.googleapis.com", "fonts.gstatic.com", "fonts.example.com"}

\* the three conditions of the claim
IsFontTarget(u) ==
  \/ IsServiceUrl(u)
  \/ \E i \in 1..Len(HostAndPath(u)) : HostAndPath(u)[i] \in FontsTokens
  \/ HostAndPath(u) # <<>>
       /\ HostAndPath(u)[Len(HostAndPath(u))] \in {".woff", ".woff2", ".ttf", ".otf", ".eot"}

\* the @import statements of the style blocks of the fetched page
PageImports ==
  UNION { { InlineTexts[i][k] : k \in {x \in 1..Len(InlineTexts[i]) : InlineTexts[i][x].kind = "import"} } :
          i \in 1..Len(InlineTexts) }

\* C19: the urls of cssImportFonts are the targets of the @import statements
\* of the page that name a font-service host, hold the token "fonts" in
\* host or path, or end in woff, woff2, ttf, otf or eot before an optional
\* query string; no other import is reported
C19_FontImportsExactly ==
  (Succeeded /\ PrimaryAnswered) =>
     { Fonts.cssImportFonts[k].url : k \in 1..Len(Fonts.cssImportFonts) }
       = { TargetOf(item) : item \in {x \in PageImports : IsFontTarget(TargetOf(x))} }

\* one direction: an import that matches none of the three conditions is
\* never reported (it holds)
C19_NoOtherImport ==
  (Succeeded /\ PrimaryAnswered) =>
     \A k \in 1..Len(Fonts.cssImportFonts) :
        /\ IsFontTarget(Fonts.cssImportFonts[k].url)
        /\ \E item \in PageImports : TargetOf(item) = Fonts.cssImportFonts[k].url

(***************************************************************************)
(* The font shorthand                                                      *)
(***************************************************************************)
\* the whitespace-delimited tokens of a value
Words(v) == SelectSeq(Split(v, " "), LAMBDA w : w # <<>>)

\* whether a block has a font shorthand, and the value of its last one
HasShorthand(b) ==
  b.kind # "import" /\ \E d \in 1..Len(b.decls) : b.decls[d].prop = "font" /\ Words(b.decls[d].val) # <<>>

ShorthandValue(b) ==
  b.decls[CHOOSE d \in 1..Len(b.decls) :
            /\ b.decls[d].prop = "font" /\ Words(b.decls[d].val) # <<>>
            /\ \A e \in (d + 1)..Len(b.decls) : b.decls[e].prop # "font"].val

LastWord(v) == Words(v)[Len(Words(v))]

\* the shorthand entries the claim states for a CSS text, in source order
RECURSIVE ShorthandEntries(_)
ShorthandEntries(css) ==
  IF css = <<>> THEN <<>>
  ELSE (IF HasShorthand(Head(css)) /\ LastWord(ShorthandValue(Head(css)))[1] \notin DigitTokens
          THEN << [selector  |-> Trim(Head(css).sel),
                   value     |-> StripQuotes(LastWord(ShorthandValue(Head(css)))),
                   shorthand |-> TRUE] >>
          ELSE <<>>) \o ShorthandEntries(Tail(css))

\* the record of the catalog for the i-th style block of the page
InlineRecord(i) == Fonts.cssSourceFiles[i]

\* C20: the shorthand entries of extractFontFamiliesFromCSS for a text are,
\* in source order, one per block with a font shorthand whose last
\* whitespace-delimited token does not begin with a digit: that token
\* without quotes, with the selector of the block; every other entry is the
\* value of a font-family declaration and is not tagged shorthand
C20_ShorthandLastToken ==
  (Succeeded /\ PrimaryAnswered) =>
     \A i \in 1..Len(InlineTexts) :
        /\ InlineRecord(i).content = InlineTexts[i]
        /\ SelectSeq(InlineRecord(i).fontFamilies, LAMBDA f : f.shorthand)
             = ShorthandEntries(InlineTexts[i])
        /\ \A k \in 1..Len(InlineRecord(i).fontFamilies) :
             ~InlineRecord(i).fontFamilies[k].shorthand
               => \E stack \in StacksOf(InlineTexts[i]) :
                     InlineRecord(i).fontFamilies[k].value = StripQuotes(Trim(stack))

\* the same on the runs where the text has no @import statement and no
\* font shorthand of a single token (there it holds)
C20_ExceptSingleTokenAndImport ==
  (PrimaryAnswered
     /\ \A i \in 1..Len(InlineTexts) : \A k \in 1..Len(InlineTexts[i]) :
          /\ InlineTexts[i][k].kind # "import"
          /\ HasShorthand(InlineTexts[i][k]) => Len(Words(ShorthandValue(InlineTexts[i][k]))) >= 2)
    => C20_ShorthandLastToken


(***************************************************************************)
(* The order of the source records                                         *)
(***************************************************************************)
\* the style blocks of the fetched page that have a content
NonEmptyBlocks == SelectSeq(st.data.styles, LAMBDA content : content # <<>>)

\* cssSourceFiles is the inline records of the page followed by one
\* external record for each of these stylesheet fetches, in their order
SourcesAre(fetches) ==
  LET src == st.cssSourceFiles
      inl == IF st.pc \in {"css", "done"} THEN NonEmptyBlocks ELSE <<>>
  IN  /\ Len(src) = Len(inl) + Len(fetches)
      /\ \A k \in 1..Len(inl) :
           /\ src[k].source = "inline <style> tag"
           /\ src[k].url = <<>>
           /\ src[k].content = inl[k]
      /\ \A k \in 1..Len(fetches) :
           LET r == src[Len(inl) + k]
           IN  /\ r.source = "external CSS file"
               /\ r.url = fetches[k].url
               /\ IsAbsolute(r.url)
               /\ r.content = fetches[k].reply.data

\* a step only appends to cssSourceFiles
SourcesOnlyGrow == IsPrefix(st.cssSourceFiles, st'.cssSourceFiles)

MaxDots == 2

KitNames == { <<"abc1234">> \o dots : dots \in UNION { [1..n -> {".min", ".css"}] : n \in 0..MaxDots } }

KitDirs == { <<>>, <<"k", "/">> }

KitQueries == { <<>>, <<"?", "v=3">>, <<"?", "ref=", "a", "/", "b">> }

KitHrefs ==
  { <<"https://", host, "/">> \o dir \o name \o query :
      host \in KitHosts, dir \in KitDirs, name \in KitNames, query \in KitQueries }

EdgeHref == <<"https://", "use.edgefonts.net", "/", "lato", ".css">>

\* pages of one generated kit link, and pages of two kit links around
\* another stylesheet
KitPages ==
  { [links |-> <<Stylesheet(href)>>, styles |-> <<>>] : href \in KitHrefs }
    \cup { [links |-> <<Stylesheet(a), Stylesheet(<<"/", "css", "/", "site", ".css">>), Stylesheet(b)>>,
            styles |-> <<>>] : a, b \in {KitHref, EdgeHref} }

InitKits ==
  /\ body = [json |-> TRUE, url |-> "string", text |-> <<"example.com">>]
  /\ st = Fresh
  /\ net = <<>>
  /\ responses = <<>>
  /\ other = NoRequest
  /\ home = Mounted

\* axios.get(url) of line 35 answers with a page of one kit link
PrimaryAnswersKits ==
  /\ st.pc = "primary"
  /\ Fetchable(st.url)
  /\ \E data \in KitPages :
       Continue(AfterPrimary(st, data), Settled(net, Answer(200, data)))
  /\ UNCHANGED <<body, other, home>>

NextKits ==
  \/ Post
  \/ PrimaryAnswersKits
  \/ KitFetchFails
  \/ KitFetchAnswers
  \/ CssFetchFails

SpecKits == InitKits /\ [][NextKits]_vars

\* the final path segment of an absolute URL, the query left out
FinalSegment(url) ==
  LET segs == Segments(PathOf(SubSeq(url, 3, Len(url))))
  IN  segs[Len(segs)]

\* a file name without its extension, the dot token it ends with
WithoutExtension(name) ==
  IF name # <<>> /\ name[Len(name)] \in DotTokens
    THEN SubSeq(name, 1, Len(name) - 1) ELSE name

\* C22: the projectId of a kit-service entry is the final path segment of
\* the link URL with its extension removed, also where the segment has
\* several dots or the link carries a query string
C22_ProjectIdIsFileName ==
  \A k \in 1..Len(st.adobeFonts) :
     st.adobeFonts[k].projectId = WithoutExtension(FinalSegment(st.adobeFonts[k].url))

\* the final segment has at most one dot; a query, if any, follows an
\* extension and holds no "/"
IsPlainKitUrl(url) ==
  LET dots  == Len(SelectSeq(FinalSegment(url), LAMBDA t : t \in DotTokens))
      query == QueryOf(SubSeq(url, 3, Len(url)))
  IN  /\ dots <= 1
      /\ query # <<>> => (dots = 1 /\ ~Includes(query, "/"))

\* what holds of C22: the projectId of a kit link whose final segment has
\* at most one dot, and whose query follows an extension and holds no "/",
\* is that segment without its extension
C22_ExceptSeveralDots ==
  \A k \in 1..Len(st.adobeFonts) :
     IsPlainKitUrl(st.adobeFonts[k].url) =>
        st.adobeFonts[k].projectId = WithoutExtension(FinalSegment(st.adobeFonts[k].url))

(***************************************************************************)
(* A failed stylesheet fetch                                               *)
(***************************************************************************)
\* this step settles the awaited stylesheet fetch as failed
CssFetchFailed ==
  /\ st.pc = "css"
  /\ Len(net') >= Len(net)
  /\ net'[Len(net)].kind = "css"
  /\ net'[Len(net)].state = "failed"

\* C23: an external stylesheet whose fetch fails leaves cssSourceFiles,
\* fontFiles and fontFaceDeclarations as they were before that fetch, and
\* googleFonts, adobeFonts, preloadedFonts and cssImportFonts unchanged
C23_FailedFetchChangesNothing ==
  [][CssFetchFailed =>
       /\ st'.cssSourceFiles = st.cssSourceFiles
       /\ st'.fontFiles = st.fontFiles
       /\ st'.fontFaceDeclarations = st.fontFaceDeclarations
       /\ st'.googleFonts = st.googleFonts
       /\ st'.adobeFonts = st.adobeFonts
       /\ st'.preloadedFonts = st.preloadedFonts
       /\ st'.cssImportFonts = st.cssImportFonts]_vars

\* a stylesheet fetch has failed after another one filled the collections
C23_Witness ==
  /\ Done
  /\ Len(FetchesOf("css")) = 2
  /\ FetchesOf("css")[1].state = "answered"
  /\ FetchesOf("css")[1].reply.status = 200
  /\ FetchesOf("css")[2].state = "failed"
  /\ Len(ExternalRecords(st.cssSourceFiles)) = 1
  /\ st.fontFiles # <<>>
  /\ st.fontFaceDeclarations # <<>>

(***************************************************************************)
(* The kit-service entries                                                 *)
(***************************************************************************)
\* the kit-service links of the fetched page, in document order
KitLinksOfPage ==
  SelectSeq(st.data.links,
            LAMBDA el : el.rel = "stylesheet" /\ \E h \in KitHosts : Includes(el.href, h))

\* the kit fetches answered with status 200
Answered200KitFetches ==
  SelectSeq(net, LAMBDA f : f.kind = "kit" /\ f.state = "answered" /\ f.reply.status = 200)

\* a font-face block of the text states a quoted family name
HasMatchingBlock(css) ==
  \E k \in 1..Len(css) :
     /\ css[k].kind = "face"
     /\ \E d \in 1..Len(css[k].decls) :
          LET v == css[k].decls[d].val
          IN  /\ css[k].decls[d].prop = "font-family"
              /\ Len(v) >= 3
              /\ v[1] \in Quotes
              /\ \E q \in 3..Len(v) : v[q] \in Quotes /\ \A j \in 2..(q - 1) : v[j] \notin Quotes

\* C24: adobeFonts has exactly one entry per kit-service link whose fetch
\* was answered with status 200, in link order; a kit link whose fetch
\* fails has no entry, and one whose stylesheet has no matching font-face
\* block has an entry with an empty fonts list
C24_OneEntryPerFetchedKit ==
  PrimaryAnswered =>
    LET links   == KitLinksOfPage
        fetched == FetchesOf("kit")
        kits    == Answered200KitFetches
    IN  /\ Len(fetched) <= Len(links)
        /\ \A k \in 1..Len(fetched) : fetched[k].url = links[k].href
        /\ st.pc # "kit" => Len(fetched) = Len(links)
        /\ Len(st.adobeFonts) = Len(kits)
        /\ \A k \in 1..Len(kits) :
             /\ st.adobeFonts[k].type = "adobe-font"
             /\ st.adobeFonts[k].url = kits[k].url
             /\ (st.adobeFonts[k].fonts = <<>>) <=> ~HasMatchingBlock(kits[k].reply.data)

\* two kit links of different hosts, both answered with status 200, the
\* first with a text without a matching block
C24_Witness ==
  /\ Done
  /\ Len(KitLinksOfPage) = 2
  /\ KitLinksOfPage[1].href = EdgeHref
  /\ KitLinksOfPage[2].href = KitHref
  /\ Len(st.adobeFonts) = 2
  /\ st.adobeFonts[1].url = EdgeHref
  /\ st.adobeFonts[1].fonts = <<>>
  /\ st.adobeFonts[2].url = KitHref
  /\ st.adobeFonts[2].fonts # <<>>

\* of two kit links the first has failed: the only entry is the second's
C24_FailedKitWitness ==
  /\ Done
  /\ Len(FetchesOf("kit")) = 2
  /\ FetchesOf("kit")[1].state = "failed"
  /\ Len(st.adobeFonts) = 1
  /\ st.adobeFonts[1].url = FetchesOf("kit")[2].url

(***************************************************************************)
(* The page component (part_000): the user types a URL and submits it,     *)
(* handleSubmit posts it to the route, whose handler runs as above, and    *)
(* the component handles the response.  Up to MaxSubmits submissions, one  *)
(* after the other.                                                        *)
(***************************************************************************)
MaxSubmits == 2

UrlInputs ==
  { <<"example.com">>, <<"https://", "example.com", "/", "blog", "/", "post">> }

HomePages ==
  { NoPage,
    [links |-> <<Stylesheet(<<"/", "css", "/", "site", ".css">>)>>, styles |-> <<CssInline>>] }

\* a response that does not come from the route: an error page of a proxy
GatewayTimeout == [status |-> 504, body |-> [html |-> <<"Gateway Timeout">>]]

\* handleSubmit without setFontData(null): the previous result stays
SubmittedKeepingResult(h) ==
  [h EXCEPT !.pc = "fetch", !.loading = TRUE, !.error = Null, !.submits = @ + 1]

\* lines 48-60: handleSubmit up to the await of fetch
Submitted(h) ==
  [h EXCEPT !.pc = "fetch", !.loading = TRUE, !.error = Null, !.fontData = Null,
            !.submits = @ + 1]

\* the catch and finally of lines 69-73 for an error with this message
Caught(h, message) ==
  [h EXCEPT !.pc = "idle", !.response = Null, !.error = Some(message), !.loading = FALSE]

\* response.ok: a status in 200..299
Ok(response) == response.status \in 200..299

\* lines 62-73: response.json() has settled; a body that is no JSON rejects
Handled(h) ==
  LET response == h.response.value
      data     == response.body
  IN  IF "html" \in DOMAIN data THEN Caught(h, <<"Unexpected token '<'">>)
      ELSE IF ~Ok(response)
        THEN Caught(h, IF "error" \in DOMAIN data /\ data.error # <<>>
                         THEN data.error ELSE <<"Failed to detect fonts">>)
      ELSE [h EXCEPT !.pc = "idle", !.response = Null,
                     !.fontData = IF "fonts" \in DOMAIN data THEN Some(data.fonts) ELSE Undefined,
                     !.loading = FALSE]

InitHome ==
  /\ body = [json |-> TRUE, url |-> "string", text |-> <<>>]
  /\ st = [Fresh EXCEPT !.pc = "idle"]
  /\ net = <<>>
  /\ responses = <<>>
  /\ other = NoRequest
  /\ home = Mounted

\* onChange of the input (line 91): setUrl(e.target.value)
SetUrl ==
  /\ home.pc = "idle"
  /\ home.submits < MaxSubmits
  /\ \E text \in UrlInputs \ {home.url} : home' = [home EXCEPT !.url = text]
  /\ UNCHANGED <<body, st, net, responses, other>>

\* onSubmit of the form: the input is required and the button is disabled
\* while loading; the request JSON.stringify({ url }) reaches the route
HandleSubmit ==
  /\ home.pc = "idle"
  /\ ~home.loading
  /\ home.url # <<>>
  /\ home.submits < MaxSubmits
  /\ home' = Submitted(home)
  /\ body' = [json |-> TRUE, url |-> "string", text |-> home.url]
  /\ st' = Fresh
  /\ net' = <<>>
  /\ responses' = <<>>
  /\ UNCHANGED other

\* axios.get(url) of line 35 answers the request of the component
PrimaryAnswersHome ==
  /\ st.pc = "primary"
  /\ Fetchable(st.url)
  /\ \E data \in HomePages :
       Continue(AfterPrimary(st, data), Settled(net, Answer(200, data)))
  /\ UNCHANGED <<body, other, home>>

\* the fetch of line 54 resolves with the response of the route
FetchResolves ==
  /\ home.pc = "fetch"
  /\ st.pc = "done"
  /\ home' = [home EXCEPT !.pc = "json", !.response = Some(responses[1])]
  /\ UNCHANGED <<body, st, net, responses, other>>

\* the fetch of line 54 resolves with the error page of a proxy
GatewayAnswers ==
  /\ home.pc = "fetch"
  /\ home' = [home EXCEPT !.pc = "json", !.response = Some(GatewayTimeout)]
  /\ UNCHANGED <<body, st, net, responses, other>>

\* the fetch of line 54 rejects: a network error
FetchRejects ==
  /\ home.pc = "fetch"
  /\ home' = Caught(home, <<"Failed to fetch">>)
  /\ UNCHANGED <<body, st, net, responses, other>>

\* response.json() of line 62 settles
JsonSettles ==
  /\ home.pc = "json"
  /\ home' = Handled(home)
  /\ UNCHANGED <<body, st, net, responses, other>>

NextHome ==
  \/ SetUrl
  \/ HandleSubmit
  \/ Post
  \/ PrimaryFails
  \/ PrimaryAnswersHome
  \/ CssFetchFails
  \/ CssFetchAnswers
  \/ FetchResolves
  \/ GatewayAnswers
  \/ FetchRejects
  \/ JsonSettles

SpecHome == InitHome /\ [][NextHome]_vars

\* C25: from the start of handleSubmit until its response is handled,
\* loading is true and error and fontData are both null; once it is
\* handled, loading is false and exactly one of error and fontData is
\* non-null, whatever the outcome
C25_LoadingThenOneResult ==
  /\ home.pc \in {"fetch", "json"} =>
       /\ home.loading
       /\ home.error = Null
       /\ home.fontData = Null
  /\ (home.pc = "idle" /\ home.submits > 0) =>
       /\ ~home.loading
       /\ (home.error.is = "value") # (home.fontData.is = "value")
       /\ home.error.is \in {"null", "value"}
       /\ home.fontData.is \in {"null", "value"}

\* a second submission has been handled with a catalog
C25_Witness ==
  /\ home.pc = "idle"
  /\ home.submits = 2
  /\ ~home.loading
  /\ home.error = Null
  /\ home.fontData.is = "value"
  /\ home.fontData.value.cssSourceFiles # <<>>

\* a second submission is in flight: the first result is cleared
C25_ClearedWitness == home.pc = "fetch" /\ home.submits = 2 /\ st.pc = "css"

\* a submission has been handled with the message of a response that is
\* not ok
C25_ErrorWitness ==
  /\ home.pc = "idle"
  /\ home.submits > 0
  /\ home.fontData = Null
  /\ home.error = Some(<<"Failed to detect fonts: ", "timeout of 15000ms exceeded">>)

(***************************************************************************)
(* Termination.  Every axios.get carries a timeout (15000 ms at line 36,   *)
(* 5000 ms at lines 86 and 232), so a fetch in flight settles, and the     *)
(* handler runs when it is resumed: a step that is possible is eventually  *)
(* taken.  The pages are those of the kit links, which are fetched in both *)
(* loops.                                                                  *)
(***************************************************************************)
InitLive ==
  /\ body \in Bodies
  /\ st = Fresh
  /\ net = <<>>
  /\ responses = <<>>
  /\ other = NoRequest
  /\ home = Mounted

NextLive ==
  \/ Post
  \/ PrimaryFails
  \/ PrimaryAnswersKits
  \/ KitFetchFails
  \/ KitFetchAnswers
  \/ CssFetchFails
  \/ CssFetchAnswers

\* a request that has arrived is handled, and a fetch in flight settles.
\* For the fetches of the two loops weak fairness is written out: a kit
\* fetch can settle exactly while st.pc = "kit", a stylesheet fetch exactly
\* while st.pc = "css", and settling changes vars
Fairness ==
  /\ WF_vars(Post)
  /\ WF_vars(PrimaryFails \/ PrimaryAnswersKits)
  /\ ([]<>(st.pc # "kit") \/ []<><<KitFetchFails \/ KitFetchAnswers>>_vars)
  /\ ([]<>(st.pc # "css") \/ []<><<CssFetchFails \/ CssFetchAnswers>>_vars)

SpecLive == InitLive /\ [][NextLive]_vars /\ Fairness

\* C26: provided every fetch eventually completes, fails or times out,
\* every request to POST eventually has produced exactly one response,
\* and never has more than one
C26_EveryRequestAnswered ==
  /\ <>(Done /\ Len(responses) = 1)
  /\ [](Len(responses) <= 1)

\* a request answered after both loops went through a list of several
\* links, with fetches that failed and fetches that were answered
C26_Witness ==
  /\ Done
  /\ Len(responses) = 1
  /\ Len(FetchesOf("kit")) = 2
  /\ Len(FetchesOf("css")) = 3
  /\ \E i, j \in 1..Len(net) : net[i].state = "failed" /\ net[j].kind = "css" /\ net[j].state = "answered"

(***************************************************************************)
(* getUniqueFontFamilies (part_000 lines 13-45).  Names are token          *)
(* sequences; a token is a word, " ", "," or a quote.                      *)
(***************************************************************************)
\* String.prototype.toLowerCase on a token
LowerToken(t) ==
  CASE t = "Georgia" -> "georgia"
    [] t = "Arial" -> "arial"
    [] t = "ARIAL" -> "arial"
    [] t = "Sans-Serif" -> "sans-serif"
    [] t = "Segoe" -> "segoe"
    [] t = "UI" -> "ui"
    [] t = "Lato" -> "lato"
    [] t = "Zilla" -> "zilla"
    [] OTHER -> t

ToLowerCase(s) == [k \in 1..Len(s) |-> LowerToken(s[k])]

\* the array literal of lines 31-32
ExcludedFamilies ==
  { <<"serif">>, <<"sans-serif">>, <<"monospace">>, <<"cursive">>, <<"fantasy">>,
    <<"system-ui">>, <<"-apple-system">>, <<"blinkmacsystemfont">>, <<"segoe", " ", "ui">>,
    <<"roboto">>, <<"helvetica">>, <<"arial">> }

\* the place of a lower-case token in the collation order: space, quotes,
\* then words in alphabetical order
Collation(t) ==
  CASE t = " " -> 1
    [] t = "'" -> 2
    [] t = "\"" -> 3
    [] t = "arial" -> 4
    [] t = "georgia" -> 5
    [] t = "lato" -> 6
    [] t = "sans-serif" -> 7
    [] t = "segoe" -> 8
    [] t = "serif" -> 9
    [] t = "ui" -> 10
    [] t = "zilla" -> 11
    [] OTHER -> 12

\* a.localeCompare(b) < 0
RECURSIVE LocaleBefore(_, _)
LocaleBefore(a, b) ==
  IF b = <<>> THEN FALSE
  ELSE IF a = <<>> THEN TRUE
  ELSE IF Collation(Head(a)) # Collation(Head(b)) THEN Collation(Head(a)) < Collation(Head(b))
  ELSE LocaleBefore(Tail(a), Tail(b))

\* the test of line 29 without toLowerCase
CleanedKeepingCase(font) == Trim(font)

\* font.trim().toLowerCase()
Cleaned(font) == ToLowerCase(Trim(font))

\* the forEach of lines 27-36 over fontFamily.value.split(','); names is the
\* Set, in insertion order
RECURSIVE AddUnique(_, _)
AddUnique(fonts, names) ==
  IF fonts = <<>> THEN names
  ELSE LET font == Head(fonts)
       IN  IF Cleaned(font) # <<>> /\ Cleaned(font) \notin ExcludedFamilies
                /\ ~\E k \in 1..Len(names) : names[k] = Trim(font)
             THEN AddUnique(Tail(fonts), Append(names, Trim(font)))
             ELSE AddUnique(Tail(fonts), names)

\* the forEach of lines 24-38 over cssFile.fontFamilies
RECURSIVE AddFamilyValues(_, _)
AddFamilyValues(fontFamilies, names) ==
  IF fontFamilies = <<>> THEN names
  ELSE LET fontFamily == Head(fontFamilies)
       IN  AddFamilyValues(Tail(fontFamilies),
             IF "value" \in DOMAIN fontFamily /\ fontFamily.value # <<>>
               THEN AddUnique(Split(fontFamily.value, ","), names)
               ELSE names)

\* the forEach of lines 22-39 over cssSourceFiles
RECURSIVE UniqueFontFamilies(_, _)
UniqueFontFamilies(cssSourceFiles, names) ==
  IF cssSourceFiles = <<>> THEN names
  ELSE LET cssFile == Head(cssSourceFiles)
       IN  UniqueFontFamilies(Tail(cssSourceFiles),
             IF "fontFamilies" \in DOMAIN cssFile
               THEN AddFamilyValues(cssFile.fontFamilies, names)
               ELSE names)

\* Array.prototype.sort with the comparator of lines 42-44: stable, so x
\* goes after the entries that do not come after it
RECURSIVE Insert(_, _)
Insert(x, sorted) ==
  IF sorted = <<>> THEN <<x>>
  ELSE IF LocaleBefore(ToLowerCase(x), ToLowerCase(Head(sorted))) THEN <<x>> \o sorted
  ELSE <<Head(sorted)>> \o Insert(x, Tail(sorted))

RECURSIVE Sort(_)
Sort(names) ==
  IF names = <<>> THEN <<>>
  ELSE Insert(names[Len(names)], Sort(SubSeq(names, 1, Len(names) - 1)))

\* an argument that is not an array
NotArray == [is |-> "object", value |-> <<>>]

\* the argument is undefined, NotArray or Some(list)
getUniqueFontFamilies(cssSourceFiles) ==
  IF cssSourceFiles.is # "value" THEN <<>>
  ELSE Sort(UniqueFontFamilies(cssSourceFiles.value, <<>>))

(***************************************************************************)
(* Calls of getUniqueFontFamilies over generated arguments: a list of two  *)
(* source records, the first with one value of up to MaxNames names.       *)
(***************************************************************************)
MaxNames == 2

FamilyNames ==
  { <<"Georgia">>, <<"georgia">>, <<"ARIAL">>, <<"Sans-Serif">>, <<"Zilla">>,
    <<"Segoe", " ", "UI">>, <<"'", "Lato", "'">>, <<" ">> }

\* names joined with "," and ", "
RECURSIVE JoinNames(_)
JoinNames(names) ==
  IF Len(names) = 1 THEN names[1]
  ELSE names[1] \o <<",">> \o (IF Len(names) = 2 THEN <<" ">> ELSE <<>>) \o JoinNames(Tail(names))

FamilyValues == { JoinNames(names) : names \in UNION { [1..n -> FamilyNames] : n \in 1..MaxNames } }

FamilyEntry(value) == [selector |-> <<"body">>, value |-> value, shorthand |-> FALSE]

\* a record without fontFamilies, one with an empty value, and two whose
\* names occur in the first record too
OtherFiles ==
  { [source |-> "external CSS file"],
    [fontFamilies |-> << [selector |-> <<"p">>] , FamilyEntry(<<>>) >>],
    [fontFamilies |-> << FamilyEntry(<<"Lato", ",", " ", "georgia", " ">>), FamilyEntry(<<"Arial">>) >>],
    [fontFamilies |-> << FamilyEntry(<<"Zilla", ",", "Lato", ",", "Georgia">>) >>] }

UniqueArguments ==
  { Undefined, NotArray, Some(<<>>) }
    \cup { Some(<< [fontFamilies |-> <<FamilyEntry(value)>>], file >>) :
             value \in FamilyValues, file \in OtherFiles }

InitUnique ==
  /\ body = [json |-> TRUE, url |-> "string", text |-> <<>>]
  /\ st = [Fresh EXCEPT !.pc = "idle"]
  /\ net = <<>>
  /\ responses = <<>>
  /\ other = NoRequest
  /\ \E arg \in UniqueArguments :
       home = [Mounted EXCEPT !.fontData = Some([cssSourceFiles |-> arg])]

\* a call getUniqueFontFamilies(fontData.cssSourceFiles)
ListFamilies ==
  /\ home.fontData.is = "value"
  /\ home.unique = Null
  /\ home' = [home EXCEPT !.unique = Some(getUniqueFontFamilies(home.fontData.value.cssSourceFiles))]
  /\ UNCHANGED <<body, st, net, responses, other>>

NextUnique == ListFamilies

SpecUnique == InitUnique /\ [][NextUnique]_vars

\* C27: getUniqueFontFamilies returns a list with no repeated string,
\* sorted case-insensitively in ascending order, no entry of which equals,
\* ignoring case and surrounding spaces, a name of the exclusion list; it
\* returns the empty list when its argument is missing or not an array
C27_UniqueSortedNotGeneric ==
  home.unique.is = "value" =>
    LET arg == home.fontData.value.cssSourceFiles
        out == home.unique.value
    IN  /\ \A i, j \in 1..Len(out) : i # j => out[i] # out[j]
        /\ \A i, j \in 1..Len(out) :
             i < j => ~LocaleBefore(ToLowerCase(out[j]), ToLowerCase(out[i]))
        /\ \A i \in 1..Len(out) : ToLowerCase(Trim(out[i])) \notin ExcludedFamilies
        /\ arg.is # "value" => out = <<>>

\* names in both records, in two spellings, with an excluded name in upper
\* case: four entries, the spellings of one name next to each other
C27_Witness ==
  /\ home.unique.is = "value"
  /\ home.fontData.value.cssSourceFiles.is = "value"
  /\ Len(home.fontData.value.cssSourceFiles.value) = 2
  /\ home.fontData.value.cssSourceFiles.value[1].fontFamilies[1].value = <<"georgia", ",", " ", "ARIAL">>
  /\ home.unique.value = << <<"georgia">>, <<"Georgia">>, <<"Lato">>, <<"Zilla">> >>

\* the call with a missing argument has returned the empty list
C27_MissingWitness ==
  /\ home.fontData.value.cssSourceFiles = Undefined
  /\ home.unique = Some(<<>>)
====
